---------------------------- MODULE Spec2Model ----------------------------
(***************************************************************************)
(* Model of the serial expect/send engine of cmd/serial_expect/main.go:    *)
(* the executor goroutine (executeScript, handleSend, handleExpect,        *)
(* handleMonitor, handleTry), the reader goroutine (readSerial) and the    *)
(* main goroutine (executeScriptWithTimeout, main) under one clock.        *)
(*                                                                         *)
(* Go strings are sequences of one-character strings, so that framing,     *)
(* trimming, prefix and substring tests are computed as the code computes  *)
(* them.  Durations are counted in clock ticks.                            *)
(***************************************************************************)
EXTENDS Integers, Sequences, FiniteSets, TLC

(***************************************************************************)
(* Bounds of the model.                                                    *)
(***************************************************************************)
\* Most bytes the device delivers in one session.
MaxInput == 2

(***************************************************************************)
(* Program constants, durations scaled to clock ticks.                     *)
(***************************************************************************)
\* 24*time.Hour, the extended session bound, scaled.
ExtendedTimeout == 4
\* 24*time.Hour, the duration of a parameterless monitor, scaled.
IndefiniteDuration == 4
\* make(chan string, 100), scaled.
QueueCap == 2

(***************************************************************************)
(* Strings.                                                                *)
(***************************************************************************)
UpperLetters == <<"A","B","C","D","E","F","G","H","I","J","K","L","M",
                  "N","O","P","Q","R","S","T","U","V","W","X","Y","Z">>
LowerLetters == <<"a","b","c","d","e","f","g","h","i","j","k","l","m",
                  "n","o","p","q","r","s","t","u","v","w","x","y","z">>
Digits == <<"0","1","2","3","4","5","6","7","8","9">>

\* strings.ToLower on one character
LowerChar(c) ==
  IF \E i \in 1..26 : UpperLetters[i] = c
    THEN LowerLetters[CHOOSE i \in 1..26 : UpperLetters[i] = c]
    ELSE c

\* strings.ToLower
ToLower(s) == IF s = <<>> THEN <<>> ELSE [i \in 1..Len(s) |-> LowerChar(s[i])]

\* unicode.IsSpace on the characters a script or a line can hold
IsSpace(c) == c \in {" ", "\t", "\n", "\r"}

RECURSIVE TrimLeft(_)
TrimLeft(s) ==
  IF s # <<>> /\ IsSpace(Head(s)) THEN TrimLeft(Tail(s)) ELSE s

RECURSIVE TrimRight(_)
TrimRight(s) ==
  IF s # <<>> /\ IsSpace(s[Len(s)]) THEN TrimRight(SubSeq(s, 1, Len(s) - 1)) ELSE s

\* strings.TrimSpace
TrimSpace(s) == TrimRight(TrimLeft(s))

\* strings.HasPrefix
HasPrefix(s, p) == Len(s) >= Len(p) /\ SubSeq(s, 1, Len(p)) = p

\* strings.TrimPrefix
TrimPrefix(s, p) == IF HasPrefix(s, p) THEN SubSeq(s, Len(p) + 1, Len(s)) ELSE s

\* strings.Contains
Contains(s, sub) ==
  \E i \in 0..(Len(s) - Len(sub)) : SubSeq(s, i + 1, i + Len(sub)) = sub

\* strings.Split(s, "\n")
RECURSIVE SplitLines(_)
SplitLines(s) ==
  IF \E i \in 1..Len(s) : s[i] = "\n"
    THEN LET k == CHOOSE i \in 1..Len(s) :
                    s[i] = "\n" /\ \A j \in 1..(i - 1) : s[j] # "\n"
         IN <<SubSeq(s, 1, k - 1)>> \o SplitLines(SubSeq(s, k + 1, Len(s)))
    ELSE <<s>>

\* strings.ReplaceAll(s, old, new) for a two-character old and a one-character new
RECURSIVE ReplaceAll2(_, _, _)
ReplaceAll2(s, old, new) ==
  IF Len(s) < 2 THEN s
  ELSE IF SubSeq(s, 1, 2) = old
    THEN <<new>> \o ReplaceAll2(SubSeq(s, 3, Len(s)), old, new)
    ELSE <<Head(s)>> \o ReplaceAll2(Tail(s), old, new)

DigitValue(c) == (CHOOSE i \in 1..10 : Digits[i] = c) - 1
IsDigit(c) == \E i \in 1..10 : Digits[i] = c
AllDigits(s) == s # <<>> /\ \A i \in 1..Len(s) : IsDigit(s[i])

RECURSIVE DigitsValue(_)
DigitsValue(s) ==
  IF s = <<>> THEN 0 ELSE 10 * DigitsValue(SubSeq(s, 1, Len(s) - 1)) + DigitValue(s[Len(s)])

\* strconv.Atoi: an optional sign and decimal digits
Atoi(s) ==
  LET body == IF s # <<>> /\ Head(s) \in {"+", "-"} THEN Tail(s) ELSE s
  IN IF AllDigits(body)
       THEN [ok |-> TRUE,
             n |-> IF s # <<>> /\ Head(s) = "-" THEN 0 - DigitsValue(body) ELSE DigitsValue(body)]
       ELSE [ok |-> FALSE, n |-> 0]

\* time.ParseDuration, the unit map, in ticks of one second; the units below
\* the second are known and are less than a tick
DurationUnits == { <<"n", "s">>, <<"u", "s">>, <<"m", "s">>, <<"s">>, <<"m">>, <<"h">> }
UnitTicks(u) ==
  IF u = <<"s">> THEN 1 ELSE IF u = <<"m">> THEN 60 ELSE IF u = <<"h">> THEN 3600 ELSE 0

\* The length of the longest prefix of s made of digits, and of one made of
\* characters that are neither a digit nor a point.
LeadingDigits(s) ==
  CHOOSE n \in 0..Len(s) :
    /\ \A i \in 1..n : IsDigit(s[i])
    /\ n = Len(s) \/ ~ IsDigit(s[n + 1])
LeadingUnit(s) ==
  CHOOSE n \in 0..Len(s) :
    /\ \A i \in 1..n : ~ IsDigit(s[i]) /\ s[i] # "."
    /\ n = Len(s) \/ IsDigit(s[n + 1]) \/ s[n + 1] = "."

\* time.ParseDuration, the loop over the groups <digits><unit>; a group with a
\* fraction is not among the literals of the model and is not parsed
RECURSIVE durationGroups(_)
durationGroups(s) ==
  IF s = <<>> THEN [ok |-> TRUE, d |-> 0]
  ELSE LET nd == LeadingDigits(s)
           rest == SubSeq(s, nd + 1, Len(s))
           nu == LeadingUnit(rest)
           unit == SubSeq(rest, 1, nu)
       IN IF nd = 0 \/ nu = 0 \/ unit \notin DurationUnits
            THEN [ok |-> FALSE, d |-> 0]
          ELSE LET r == durationGroups(SubSeq(rest, nu + 1, Len(rest)))
               IN IF r.ok
                    THEN [ok |-> TRUE,
                          d |-> DigitsValue(SubSeq(s, 1, nd)) * UnitTicks(unit) + r.d]
                    ELSE [ok |-> FALSE, d |-> 0]

\* time.ParseDuration: an optional sign, then "0" or groups of digits and a
\* unit; anything else (a bare number, a word) is an error and yields the
\* zero duration, as ParseDuration does on error.
ParseDuration(s) ==
  LET signed == s # <<>> /\ Head(s) \in {"+", "-"}
      body == IF signed THEN Tail(s) ELSE s
  IN IF body = <<"0">> THEN [ok |-> TRUE, d |-> 0]
     ELSE IF body = <<>> THEN [ok |-> FALSE, d |-> 0]
     ELSE LET r == durationGroups(body)
          IN IF r.ok /\ signed /\ Head(s) = "-" THEN [ok |-> TRUE, d |-> 0 - r.d]
             ELSE r

(***************************************************************************)
(* Errors.  An error is the kind of its message, the script or try-block   *)
(* name and the raw value the message quotes, and the kind and value of    *)
(* the error the message embeds with %v.                                   *)
(***************************************************************************)
NoErr == [kind |-> "nil", name |-> "", val |-> <<>>, cause |-> "nil", causeVal |-> <<>>]
MkErr(k, n, v) == [kind |-> k, name |-> n, val |-> v, cause |-> "nil", causeVal |-> <<>>]
WrapErr(k, n, e) == [kind |-> k, name |-> n, val |-> <<>>, cause |-> e.kind, causeVal |-> e.val]

(***************************************************************************)
(* Expect patterns.                                                        *)
(***************************************************************************)
MatchCaseInsensitive == 0
MatchCaseSensitive == 1
MatchRegex == 2

\* regexp.Compile, on the patterns the model supports: literal characters with
\* an optional leading ^ and trailing $; an unclosed group does not compile.
RegexCompiles(content) ==
  ~ (Contains(content, <<"(">>) /\ ~ Contains(content, <<")">>))

\* Regexp.MatchString for those patterns
RegexMatchString(content, line) ==
  LET anchoredL == content # <<>> /\ Head(content) = "^"
      c1 == IF anchoredL THEN Tail(content) ELSE content
      anchoredR == c1 # <<>> /\ c1[Len(c1)] = "$"
      lit == IF anchoredR THEN SubSeq(c1, 1, Len(c1) - 1) ELSE c1
  IN \E i \in 0..(Len(line) - Len(lit)) :
       /\ SubSeq(line, i + 1, i + Len(lit)) = lit
       /\ (anchoredL => i = 0)
       /\ (anchoredR => i + Len(lit) = Len(line))

\* A plausible slip: a value without a frame is taken as a text to look for.
parseExpectPatternLenient(pattern) ==
  IF Len(pattern) < 2
    THEN [ok |-> FALSE, Pattern |-> <<>>, MatchType |-> -1]
  ELSE LET first == pattern[1]
           last == pattern[Len(pattern)]
           content == SubSeq(pattern, 2, Len(pattern) - 1)
       IN IF first = "'" /\ last = "'"
            THEN [ok |-> TRUE, Pattern |-> content, MatchType |-> MatchCaseInsensitive]
          ELSE IF first = "\"" /\ last = "\""
            THEN [ok |-> TRUE, Pattern |-> content, MatchType |-> MatchCaseSensitive]
          ELSE IF first = "/" /\ last = "/"
            THEN IF RegexCompiles(content)
                   THEN [ok |-> TRUE, Pattern |-> content, MatchType |-> MatchRegex]
                   ELSE [ok |-> FALSE, Pattern |-> <<>>, MatchType |-> -1]
          ELSE [ok |-> TRUE, Pattern |-> pattern, MatchType |-> MatchCaseInsensitive]

\* parseExpectPattern: the framing decides the match type
parseExpectPattern(pattern) ==
  IF Len(pattern) < 2
    THEN [ok |-> FALSE, Pattern |-> <<>>, MatchType |-> -1]
  ELSE LET first == pattern[1]
           last == pattern[Len(pattern)]
           content == SubSeq(pattern, 2, Len(pattern) - 1)
       IN IF first = "'" /\ last = "'"
            THEN [ok |-> TRUE, Pattern |-> content, MatchType |-> MatchCaseInsensitive]
          ELSE IF first = "\"" /\ last = "\""
            THEN [ok |-> TRUE, Pattern |-> content, MatchType |-> MatchCaseSensitive]
          ELSE IF first = "/" /\ last = "/"
            THEN IF RegexCompiles(content)
                   THEN [ok |-> TRUE, Pattern |-> content, MatchType |-> MatchRegex]
                   ELSE [ok |-> FALSE, Pattern |-> <<>>, MatchType |-> -1]
          ELSE [ok |-> FALSE, Pattern |-> <<>>, MatchType |-> -1]

\* A plausible slip: the substring match compares without folding the case.
checkMatchCaseSensitive(ep, buffer, currentLine) ==
  IF ep.MatchType = MatchCaseInsensitive
    THEN Contains(buffer, ep.Pattern)
  ELSE IF ep.MatchType = MatchCaseSensitive
    THEN HasPrefix(TrimSpace(currentLine), ep.Pattern)
  ELSE IF ep.MatchType = MatchRegex
    THEN RegexMatchString(ep.Pattern, currentLine)
  ELSE FALSE

\* A plausible slip: the text is looked for in the current line only.
checkMatchOnCurrentLine(ep, buffer, currentLine) ==
  IF ep.MatchType = MatchCaseInsensitive
    THEN Contains(ToLower(currentLine), ToLower(ep.Pattern))
  ELSE IF ep.MatchType = MatchCaseSensitive
    THEN HasPrefix(TrimSpace(currentLine), ep.Pattern)
  ELSE IF ep.MatchType = MatchRegex
    THEN RegexMatchString(ep.Pattern, currentLine)
  ELSE FALSE

\* A plausible slip: the current line is compared as it stands.
checkMatchUntrimmed(ep, buffer, currentLine) ==
  IF ep.MatchType = MatchCaseInsensitive
    THEN Contains(ToLower(buffer), ToLower(ep.Pattern))
  ELSE IF ep.MatchType = MatchCaseSensitive
    THEN HasPrefix(currentLine, ep.Pattern)
  ELSE IF ep.MatchType = MatchRegex
    THEN RegexMatchString(ep.Pattern, currentLine)
  ELSE FALSE

\* A plausible slip: a regular expression is run on all the Expect has read.
checkMatchRegexOnBuffer(ep, buffer, currentLine) ==
  IF ep.MatchType = MatchCaseInsensitive
    THEN Contains(ToLower(buffer), ToLower(ep.Pattern))
  ELSE IF ep.MatchType = MatchCaseSensitive
    THEN HasPrefix(TrimSpace(currentLine), ep.Pattern)
  ELSE IF ep.MatchType = MatchRegex
    THEN RegexMatchString(ep.Pattern, buffer)
  ELSE FALSE

\* SerialExpect.checkMatch
checkMatch(ep, buffer, currentLine) ==
  IF ep.MatchType = MatchCaseInsensitive
    THEN Contains(ToLower(buffer), ToLower(ep.Pattern))
  ELSE IF ep.MatchType = MatchCaseSensitive
    THEN HasPrefix(TrimSpace(currentLine), ep.Pattern)
  ELSE IF ep.MatchType = MatchRegex
    THEN RegexMatchString(ep.Pattern, currentLine)
  ELSE FALSE

(***************************************************************************)
(* Script parsing.                                                         *)
(***************************************************************************)
kwSend == <<"s","e","n","d"," ">>
kwExpect == <<"e","x","p","e","c","t"," ">>
kwMonitorSp == <<"m","o","n","i","t","o","r"," ">>
kwMonitor == <<"m","o","n","i","t","o","r">>

\* One line of parseScript's loop: the command of a trimmed, non-empty line
parseLine(line) ==
  IF HasPrefix(line, kwSend)
    THEN [ok |-> TRUE, cmd |-> [Type |-> "send", Value |-> TrimPrefix(line, kwSend)]]
  ELSE IF HasPrefix(line, kwExpect)
    THEN [ok |-> TRUE, cmd |-> [Type |-> "expect", Value |-> TrimPrefix(line, kwExpect)]]
  ELSE IF HasPrefix(line, kwMonitorSp)
    THEN [ok |-> TRUE, cmd |-> [Type |-> "monitor", Value |-> TrimPrefix(line, kwMonitorSp)]]
  ELSE IF line = kwMonitor
    THEN [ok |-> TRUE, cmd |-> [Type |-> "monitor", Value |-> <<>>]]
  ELSE [ok |-> FALSE, cmd |-> [Type |-> "", Value |-> line]]

\* A plausible slip: on an invalid line the commands parsed so far are returned
\* with the error.
RECURSIVE parseLinesKeepingPartial(_, _, _)
parseLinesKeepingPartial(lines, i, acc) ==
  IF i > Len(lines) THEN [ok |-> TRUE, commands |-> acc, line |-> 0, content |-> <<>>]
  ELSE LET line == TrimSpace(lines[i])
       IN IF line = <<>> THEN parseLinesKeepingPartial(lines, i + 1, acc)
          ELSE LET r == parseLine(line)
               IN IF r.ok THEN parseLinesKeepingPartial(lines, i + 1, Append(acc, r.cmd))
                  ELSE [ok |-> FALSE, commands |-> acc, line |-> i, content |-> line]

\* parseScript's loop over the lines from index i on, acc the commands so far
RECURSIVE parseLines(_, _, _)
parseLines(lines, i, acc) ==
  IF i > Len(lines) THEN [ok |-> TRUE, commands |-> acc, line |-> 0, content |-> <<>>]
  ELSE LET line == TrimSpace(lines[i])
       IN IF line = <<>> THEN parseLines(lines, i + 1, acc)
          ELSE LET r == parseLine(line)
               IN IF r.ok THEN parseLines(lines, i + 1, Append(acc, r.cmd))
                  ELSE [ok |-> FALSE, commands |-> <<>>, line |-> i, content |-> line]

\* parseScript
parseScript(scriptText) == parseLines(SplitLines(TrimSpace(scriptText)), 1, <<>>)

(***************************************************************************)
(* Send formatting and monitor parameters.                                 *)
(***************************************************************************)
\* A plausible slip: the escapes are replaced in single quotes too.
sendBytesEscapesEverywhere(value) ==
  IF Len(value) >= 2
    THEN LET first == value[1]
             last == value[Len(value)]
             content == SubSeq(value, 2, Len(value) - 1)
             text == ReplaceAll2(ReplaceAll2(content, <<"\\", "r">>, "\r"), <<"\\", "n">>, "\n")
         IN IF first = "'" /\ last = "'" THEN text \o <<"\r">>
            ELSE IF first = "\"" /\ last = "\"" THEN text
            ELSE value
    ELSE value

\* handleSend, lines 842-861: the bytes a Send writes
sendBytes(value) ==
  IF Len(value) >= 2
    THEN LET first == value[1]
             last == value[Len(value)]
             content == SubSeq(value, 2, Len(value) - 1)
         IN IF first = "'" /\ last = "'" THEN content \o <<"\r">>
            ELSE IF first = "\"" /\ last = "\""
              THEN ReplaceAll2(ReplaceAll2(content, <<"\\", "r">>, "\r"), <<"\\", "n">>, "\n")
            ELSE value
    ELSE value

\* A plausible slip: the empty parameter is left at the zero duration.
monitorParameterEmptyZero(parameter) ==
  LET d == ParseDuration(parameter)
      n == Atoi(parameter)
  IN IF parameter = <<>> \/ d.ok
       THEN [ok |-> TRUE, monitorDuration |-> d.d, maxLines |-> 0]
     ELSE IF n.ok THEN [ok |-> TRUE, monitorDuration |-> 0, maxLines |-> n.n]
     ELSE [ok |-> FALSE, monitorDuration |-> 0, maxLines |-> 0]

\* handleMonitor, lines 776-797: the parsed parameter
monitorParameter(parameter) ==
  IF parameter = <<>>
    THEN [ok |-> TRUE, monitorDuration |-> IndefiniteDuration, maxLines |-> 0]
  ELSE LET d == ParseDuration(parameter)
           n == Atoi(parameter)
       IN IF d.ok THEN [ok |-> TRUE, monitorDuration |-> d.d, maxLines |-> 0]
          ELSE IF n.ok THEN [ok |-> TRUE, monitorDuration |-> 0, maxLines |-> n.n]
          ELSE [ok |-> FALSE, monitorDuration |-> 0, maxLines |-> 0]

(***************************************************************************)
(* The configurations and the device output the model draws from.          *)
(***************************************************************************)
\* parseTimeouts: the receive timeout, scaled to ticks
receiveTimeout == 1

\* parseTimeouts: the script timeouts a configuration of the model sets, in
\* ticks; 0 is a timeout shorter than the time main takes to reach its select
ScriptTimeouts == {0, 3}

\* The characters the device sends.
Alphabet == {"B", "\n"}

\* 'a'
vQuotedA == <<"'", "a", "'">>
\* 'b'
vQuotedB == <<"'", "b", "'">>
\* "B"
vDoubleB == <<"\"", "B", "\"">>
\* 1s
vOneSecond == <<"1", "s">>

\* The bodies of the named scripts, as the configuration holds them.
mainBody == <<"\n", " ">> \o kwExpect \o vQuotedB \o <<"\n", " ">> \o kwSend \o vQuotedA \o <<"\n">>
recoverBody == <<"\n", " ">> \o kwExpect \o vDoubleB \o <<"\n", " ">> \o kwSend \o vQuotedA \o <<"\n">>
brokenBody == <<"\n", " ">> \o kwSend \o vQuotedA \o <<"\n", " ", "w", "a", "i", "t", " ", "5", "\n">>

\* Script bodies of the configurations that go through main's resolution and
\* parse: a monitor, and an expect whose pattern b' has no valid framing.
monitorBody == <<"\n", " ">> \o kwMonitorSp \o vOneSecond \o <<"\n">>
badPatternBody == <<"\n", " ">> \o kwExpect \o <<"b", "'">> \o <<"\n">>

\* The body of a script that a try block runs, like monitor_fallback of the
\* example configuration: a Monitor for a number of lines.
watchBody == kwMonitorSp \o <<"2", "\n">>

\* The contents of the <script> elements the model draws from.
ScriptBodies == {mainBody, recoverBody, brokenBody, monitorBody, badPatternBody, watchBody}

\* config.Scripts
ConfigScripts ==
  << [Name |-> "main", Content |-> mainBody],
     [Name |-> "recover", Content |-> recoverBody],
     [Name |-> "broken", Content |-> brokenBody] >>

\* parseScript on the script bodies of the configuration: the parse of a body
\* depends on nothing but the body, and is computed once per body
parsedScripts == [c \in ScriptBodies |-> parseScript(c)]

\* config.Tries: one try block, its except reference and retry flag drawn
TryBlocks ==
  { [Name |-> "t1", Script |-> "main", Except |-> e, Retry |-> r] :
      e \in {"", "recover", "broken", "missing"}, r \in BOOLEAN }

\* parseTryBlock, lines 561-579: the try command with its script map, which
\* leaves out the scripts that have no name
parseTryBlock(scripts, tb) ==
  LET named == {i \in 1..Len(scripts) : scripts[i].Name # ""}
      scriptMap == [n \in {scripts[i].Name : i \in named} |->
                      scripts[CHOOSE i \in named :
                                scripts[i].Name = n
                                /\ \A j \in named : scripts[j].Name = n => j <= i]]
  IN [Type |-> "try", Value |-> tb.Name, TryBlock |-> tb, ScriptMap |-> scriptMap]

\* The commands a top-level script of the model holds besides a try block.
PlainCommands ==
  { [Type |-> "send", Value |-> vQuotedA],
    [Type |-> "expect", Value |-> vQuotedB],
    [Type |-> "monitor", Value |-> vOneSecond] }

\* se.commands of a session: one command or two, the try commands of one
\* session referring to the same try block
Programs ==
  UNION { LET pool == PlainCommands \cup {parseTryBlock(ConfigScripts, tb)}
          IN [1..1 -> pool] \cup [1..2 -> pool] : tb \in TryBlocks }

(***************************************************************************)
(* The script texts parseScript is applied to.                             *)
(***************************************************************************)
MaxLines == 3

\* The lines of a script text: the four forms of a command, one of them
\* between white space, a blank line, and lines that are no command: an
\* unknown word, a keyword without a value, a keyword run into its value.
ScriptLines ==
  { kwSend \o <<"a">>,
    <<" ", "\t">> \o kwExpect \o <<"b">> \o <<" ", "\r">>,
    kwMonitorSp \o <<"5">>,
    kwMonitor,
    <<>>,
    <<"w", "a", "i", "t", " ", "5">>,
    <<"s", "e", "n", "d">>,
    kwMonitor \o <<"5">> }

\* strings.Join(lines, "\n")
RECURSIVE JoinLines(_)
JoinLines(lines) ==
  IF Len(lines) = 0 THEN <<>>
  ELSE IF Len(lines) = 1 THEN lines[1]
  ELSE lines[1] \o <<"\n">> \o JoinLines(Tail(lines))

ScriptTexts == { JoinLines(ls) : ls \in UNION { [1..n -> ScriptLines] : n \in 0..MaxLines } }

(***************************************************************************)
(* The resolver: selectScripts, and the configurations and requested names *)
(* it is applied to.                                                       *)
(***************************************************************************)
MaxScripts == 2
MaxTries == 2
MaxNames == 2

\* selectScripts, line 189: fmt.Sprintf("script%d", i+1), i counted from 0
DefaultName(i) == <<"script1", "script2", "script3", "script4", "script5">>[i]

\* selectScripts, line 212: the marker "__TRY_BLOCK__"
TryBlockMarker == <<"_", "_", "T", "R", "Y", "_", "B", "L", "O", "C", "K", "_", "_">>

\* selectScripts, lines 210-213 and 232: a try block as a virtual script; the
\* name follows the marker
TryUnit(name) == [Name |-> name, Content |-> Append(TryBlockMarker, name)]

\* A Go map with one more assignment m[k] = v.
MapPut(m, k, v) == [x \in DOMAIN m \cup {k} |-> IF x = k THEN v ELSE m[x]]

EmptyMap == [x \in {} |-> 0]

\* selectScripts, lines 185-193: the scripts, the unnamed ones under their
\* default names, a later script replacing an earlier one of the same name
RECURSIVE addScripts(_, _, _)
addScripts(scripts, i, scriptMap) ==
  IF i > Len(scripts) THEN scriptMap
  ELSE LET name == IF scripts[i].Name = "" THEN DefaultName(i) ELSE scripts[i].Name
           script == [scripts[i] EXCEPT !.Name = name]
       IN addScripts(scripts, i + 1, MapPut(scriptMap, name, script))

\* selectScripts, lines 196-214: the try blocks in the order declared, each
\* checked against the map built so far and then added to it
RECURSIVE addTries(_, _, _)
addTries(tries, k, scriptMap) ==
  IF k > Len(tries) THEN [err |-> NoErr, scriptMap |-> scriptMap]
  ELSE LET tryBlock == tries[k]
       IN IF tryBlock.Name = ""
            THEN [err |-> MkErr("try block must have a name attribute", "", <<>>),
                  scriptMap |-> scriptMap]
          ELSE IF tryBlock.Script \notin DOMAIN scriptMap
            THEN [err |-> MkErr("references non-existent script", tryBlock.Name, <<>>),
                  scriptMap |-> scriptMap]
          ELSE IF tryBlock.Except # "" /\ tryBlock.Except \notin DOMAIN scriptMap
            THEN [err |-> MkErr("references non-existent except script", tryBlock.Name, <<>>),
                  scriptMap |-> scriptMap]
          ELSE addTries(tries, k + 1,
                        MapPut(scriptMap, tryBlock.Name, TryUnit(tryBlock.Name)))

\* A plausible slip: an unknown name is skipped and the lookup goes on.
RECURSIVE lookupNamesSkipping(_, _, _, _)
lookupNamesSkipping(names, k, scriptMap, selectedScripts) ==
  IF k > Len(names) THEN [ok |-> TRUE, scripts |-> selectedScripts, err |-> NoErr]
  ELSE IF names[k] \in DOMAIN scriptMap
    THEN lookupNamesSkipping(names, k + 1, scriptMap,
                             Append(selectedScripts, scriptMap[names[k]]))
  ELSE lookupNamesSkipping(names, k + 1, scriptMap, selectedScripts)

\* selectScripts, lines 238-250: the requested names looked up in order
RECURSIVE lookupNames(_, _, _, _)
lookupNames(names, k, scriptMap, selectedScripts) ==
  IF k > Len(names) THEN [ok |-> TRUE, scripts |-> selectedScripts, err |-> NoErr]
  ELSE IF names[k] \in DOMAIN scriptMap
    THEN lookupNames(names, k + 1, scriptMap, Append(selectedScripts, scriptMap[names[k]]))
  ELSE [ok |-> FALSE, scripts |-> <<>>,
        err |-> MkErr("script or try block not found", names[k], <<>>)]

\* A plausible slip: with no name requested, the whole configuration is run.
selectScriptsAllByDefault(cfg, names) ==
  LET r == addTries(cfg.Tries, 1, addScripts(cfg.Scripts, 1, EmptyMap))
  IN IF r.err # NoErr THEN [ok |-> FALSE, scripts |-> <<>>, err |-> r.err]
     ELSE IF DOMAIN r.scriptMap = {}
       THEN [ok |-> FALSE, scripts |-> <<>>,
             err |-> MkErr("no scripts or try blocks found in configuration", "", <<>>)]
     ELSE IF names = <<>>
       THEN [ok |-> TRUE,
             scripts |-> [i \in 1..Len(cfg.Scripts) |->
                            [cfg.Scripts[i] EXCEPT !.Name = IF @ = "" THEN DefaultName(i) ELSE @]]
                         \o [k \in 1..Len(cfg.Tries) |-> TryUnit(cfg.Tries[k].Name)],
             err |-> NoErr]
     ELSE lookupNames(names, 1, r.scriptMap, <<>>)

\* selectScripts
selectScripts(cfg, names) ==
  LET r == addTries(cfg.Tries, 1, addScripts(cfg.Scripts, 1, EmptyMap))
  IN IF r.err # NoErr THEN [ok |-> FALSE, scripts |-> <<>>, err |-> r.err]
     ELSE IF DOMAIN r.scriptMap = {}
       THEN [ok |-> FALSE, scripts |-> <<>>,
             err |-> MkErr("no scripts or try blocks found in configuration", "", <<>>)]
     ELSE IF names = <<>> /\ Len(cfg.Scripts) > 0
       THEN [ok |-> TRUE,
             scripts |-> << [cfg.Scripts[1] EXCEPT !.Name = IF @ = "" THEN "script1" ELSE @] >>,
             err |-> NoErr]
     ELSE IF names = <<>> /\ Len(cfg.Tries) > 0
       THEN [ok |-> TRUE, scripts |-> << TryUnit(cfg.Tries[1].Name) >>, err |-> NoErr]
     ELSE lookupNames(names, 1, r.scriptMap, <<>>)

\* The <script> elements of a configuration given to the resolver: the i-th
\* has the i-th body, and has a name or none.
ScriptLists ==
  LET bodies == <<mainBody, recoverBody, brokenBody>>
  IN UNION { { [i \in 1..n |-> [Name |-> nm[i], Content |-> bodies[i]]] :
                 nm \in [1..n -> {"", "a"}] } : n \in 0..MaxScripts }

\* The <try> elements: a main reference to a named script, to the default
\* name of an unnamed one, to a try block, or to nothing declared; an except
\* reference likewise; a try block without a name.
TryPool ==
  { [Name |-> "t1", Script |-> "a", Except |-> "", Retry |-> FALSE],
    [Name |-> "t1", Script |-> "script1", Except |-> "", Retry |-> FALSE],
    [Name |-> "t2", Script |-> "t1", Except |-> "", Retry |-> FALSE],
    [Name |-> "t2", Script |-> "missing", Except |-> "", Retry |-> FALSE],
    [Name |-> "t2", Script |-> "a", Except |-> "missing", Retry |-> FALSE],
    [Name |-> "t2", Script |-> "a", Except |-> "t1", Retry |-> FALSE],
    [Name |-> "", Script |-> "a", Except |-> "", Retry |-> FALSE] }

TryLists == UNION { [1..n -> TryPool] : n \in 0..MaxTries }

Configs == { [Scripts |-> sc, Tries |-> tr] : sc \in ScriptLists, tr \in TryLists }

\* The script names of the command line.
Requests == UNION { [1..n -> {"a", "t1", "unknown"}] : n \in 0..MaxNames }

(***************************************************************************)
(* State.                                                                  *)
(***************************************************************************)
VARIABLES
  commands,     \* se.commands
  scriptTimeout,\* se.scriptTimeout, in ticks
  now,          \* the clock, in ticks
  mainPc,       \* main goroutine: "resolve", "build", "fatal" (before the
                \* session), "start", "select" (about to evaluate the
                \* select), "parked" (blocked in it), "woken" (woken by
                \* ctx.Done()), "returned", "exited"
  ctxDeadline,  \* the deadline of ctx in executeScriptWithTimeout
  done,         \* the channel done (capacity 1)
  runResult,    \* what executeScriptWithTimeout returned
  readChan,     \* the channel readChan
  rdPc,         \* reader goroutine: "idle", "read", "erred" (reading, after a
                \* read error), "stopped"
  nRead,        \* bytes the reader took from the port so far
  written,      \* the writes the port received, in order
  ex,           \* executor goroutine: position in executeScript and handleTry
  wait,         \* locals of the handleExpect or handleMonitor in progress
  trace,        \* history: every command dispatched, with its outcome
  port,         \* se.port: "unopened", "open" or "closed"
  received,     \* history: the bytes ReadByte returned, in order
  config,       \* main: the configuration parseConfig returned
  scriptNames,  \* main: the script names of the command line
  scriptsToExecute, \* main: what selectScripts returned
  parseInput,   \* scriptText, the argument of a call of parseScript
  parseOutcome, \* what that call returned
  fnInput,      \* the arguments of a call of checkMatch
  fnOutput,     \* what that call returned
  dry           \* executeDryRun: the input file and lines, lineIndex, the
                \* index i of the command, and what was printed as TX

\* What plays no part in a session: the resolver's and the parser's data, and
\* the arguments and results of the functions applied on their own.
setup == <<config, scriptNames, scriptsToExecute, parseInput, parseOutcome,
           fnInput, fnOutput, dry>>

vars == <<commands, scriptTimeout, now, mainPc, ctxDeadline, done, runResult, readChan, rdPc,
          nRead, written, ex, wait, trace, port, received, setup>>

\* The values of the resolver's and the parser's data while they play no part.
NoConfig == [Scripts |-> <<>>, Tries |-> <<>>]
NoSelection == [ok |-> FALSE, scripts |-> <<>>, err |-> NoErr]
NoOutcome == [ok |-> FALSE, commands |-> <<>>, line |-> 0, content |-> <<>>]
NoDryRun == [input |-> <<>>, lines |-> <<>>, lineIndex |-> 0, i |-> 0, tx |-> <<>>]

Pending == MkErr("pending", "", <<>>)
NoWait == [kind |-> "none", raw |-> <<>>, ep |-> [ok |-> FALSE, Pattern |-> <<>>, MatchType |-> -1],
           buffer |-> <<>>, currentLine |-> <<>>, timed |-> FALSE, deadline |-> 0,
           maxLines |-> 0, lineCount |-> 0]
IdleEx == [pc |-> "idle", ip |-> 0, phase |-> "none", attempt |-> 0, sub |-> 0,
           lastError |-> NoErr, tcmds |-> <<>>, xcmds |-> <<>>, maxRetries |-> 0,
           result |-> NoErr]

Init ==
  /\ commands \in Programs
  /\ scriptTimeout \in ScriptTimeouts
  /\ now = 0
  /\ mainPc = "start"
  /\ ctxDeadline = 0
  /\ done = <<>>
  /\ runResult = NoErr
  /\ readChan = <<>>
  /\ rdPc = "idle"
  /\ nRead = 0
  /\ written = <<>>
  /\ ex = IdleEx
  /\ wait = NoWait
  /\ trace = <<>>
  /\ port = "open"
  /\ received = <<>>
  /\ config = NoConfig
  /\ scriptNames = <<>>
  /\ scriptsToExecute = NoSelection
  /\ parseInput = <<>>
  /\ parseOutcome = NoOutcome
  /\ fnInput = <<>>
  /\ fnOutput = <<>>
  /\ dry = NoDryRun

(***************************************************************************)
(* The executor's control flow.  These operators take and return the pair  *)
(* s = [ex, trace] and compute where the executor stands once a command    *)
(* has returned err.                                                       *)
(***************************************************************************)
\* The command the executor is at.
CurCmd ==
  IF ex.phase = "main" THEN ex.tcmds[ex.sub]
  ELSE IF ex.phase = "except" THEN ex.xcmds[ex.sub]
  ELSE commands[ex.ip]

\* History: the entry of a command being dispatched.
Entry(cmd) ==
  [ip |-> ex.ip,
   ctx |-> IF ex.phase = "none" THEN "top" ELSE ex.phase,
   attempt |-> ex.attempt,
   idx |-> IF ex.phase = "none" THEN ex.ip ELSE ex.sub,
   Type |-> cmd.Type, Value |-> cmd.Value, err |-> Pending, consumed |-> <<>>]

\* History: the last entry of context ctx gets its outcome.
Complete(tr, ctx, err) ==
  LET k == CHOOSE i \in 1..Len(tr) :
             tr[i].ctx = ctx /\ \A j \in (i + 1)..Len(tr) : tr[j].ctx # ctx
  IN [tr EXCEPT ![k].err = err]

\* executeScript returns err, and the goroutine of line 323 sends it on done
Finish(s, err) == [s EXCEPT !.ex.pc = "finished", !.ex.result = err]

\* A plausible slip: the loop goes on after a command failed.
TopNextKeepGoing(s, err) ==
  LET t == [s EXCEPT !.trace = Complete(s.trace, "top", err)]
  IN IF t.ex.ip >= Len(commands) THEN Finish(t, err)
     ELSE [t EXCEPT !.ex.ip = t.ex.ip + 1, !.ex.pc = "dispatch"]

\* executeScript, lines 338-361: top-level command i returned err
TopNext(s, err) ==
  LET t == [s EXCEPT !.trace = Complete(s.trace, "top", err)]
  IN IF err # NoErr THEN Finish(t, err)
     ELSE IF t.ex.ip >= Len(commands) THEN Finish(t, NoErr)
     ELSE [t EXCEPT !.ex.ip = t.ex.ip + 1, !.ex.pc = "dispatch"]

\* handleTry returns err to executeScript
TryReturn(s, err) == TopNext([s EXCEPT !.ex.phase = "none"], err)

\* A plausible slip: a try block whose recovery ran reports no error.
tryFailureMasked(s) ==
  IF s.ex.phase = "except" THEN NoErr
  ELSE WrapErr("try block failed", commands[s.ex.ip].TryBlock.Name, s.ex.lastError)

\* handleTry, line 769: the error of a try block whose attempts all failed
tryFailure(s) ==
  WrapErr("try block failed", commands[s.ex.ip].TryBlock.Name, s.ex.lastError)

\* handleTry, lines 745-769: the loop over the except commands and the final return
ExceptLoop(s) ==
  IF s.ex.sub <= Len(s.ex.xcmds) THEN [s EXCEPT !.ex.pc = "dispatch"]
  ELSE TryReturn(s, tryFailure(s))

\* handleTry, lines 727-743 and 768-769: all attempts failed
EnterExcept(s) ==
  LET tb == commands[s.ex.ip].TryBlock
      sm == commands[s.ex.ip].ScriptMap
  IN IF tb.Except = ""
       THEN TryReturn(s, tryFailure(s))
     ELSE IF tb.Except \notin DOMAIN sm
       THEN TryReturn(s, MkErr("except script not found", tb.Except, <<>>))
     ELSE LET p == parsedScripts[sm[tb.Except].Content]
          IN IF ~ p.ok
               THEN TryReturn(s, [kind |-> "failed to parse except script",
                                  name |-> tb.Except, val |-> <<>>,
                                  cause |-> "invalid command", causeVal |-> p.content])
               ELSE ExceptLoop([s EXCEPT !.ex.phase = "except", !.ex.sub = 1,
                                         !.ex.xcmds = p.commands])

\* handleTry, lines 686-725: the attempt loop around the loop over the main
\* commands, entered with sub the index of the next command of the attempt
RECURSIVE MainLoop(_)
MainLoop(s) ==
  IF s.ex.sub <= Len(s.ex.tcmds) THEN [s EXCEPT !.ex.pc = "dispatch"]
  ELSE IF s.ex.lastError = NoErr THEN TryReturn(s, NoErr)
  ELSE IF s.ex.attempt >= s.ex.maxRetries THEN EnterExcept(s)
  ELSE MainLoop([s EXCEPT !.ex.attempt = s.ex.attempt + 1, !.ex.sub = 1,
                          !.ex.lastError = NoErr])

\* handleTry, lines 693-711: a command of the main script returned err.  The
\* break of lines 698, 703 and 708 leaves the switch, not the loop over the
\* commands, which goes on with the next one.
MainNext(s, err) ==
  MainLoop([s EXCEPT !.ex.sub = s.ex.sub + 1,
                     !.ex.lastError = IF err # NoErr THEN err ELSE s.ex.lastError])

\* A plausible slip: an error in the except script ends the except run.
ExceptNextAbort(s, err) ==
  IF err # NoErr THEN ExceptLoop([s EXCEPT !.ex.sub = Len(s.ex.xcmds) + 1])
  ELSE ExceptLoop([s EXCEPT !.ex.sub = s.ex.sub + 1])

\* handleTry, lines 745-763: a command of the except script returned err, which
\* is logged and dropped
ExceptNext(s, err) == ExceptLoop([s EXCEPT !.ex.sub = s.ex.sub + 1])

\* The command being executed returned err.
AfterCommand(s, err) ==
  IF s.ex.phase = "none" THEN TopNext(s, err)
  ELSE LET t == [s EXCEPT !.trace = Complete(s.trace, s.ex.phase, err)]
       IN IF s.ex.phase = "main" THEN MainNext(t, err) ELSE ExceptNext(t, err)

\* A plausible slip: the retry is counted on top of two attempts.
maxRetriesOffByOne(tb) == IF tb.Retry THEN 3 ELSE 1

\* handleTry, lines 679-682: maxRetries
maxRetriesOf(tb) == IF tb.Retry THEN 2 ELSE 1

\* handleTry, lines 661-684: the entry of a try command
EnterTry(s) ==
  LET tb == commands[s.ex.ip].TryBlock
      sm == commands[s.ex.ip].ScriptMap
  IN IF tb.Script \notin DOMAIN sm
       THEN TopNext(s, MkErr("script not found", tb.Script, <<>>))
     ELSE LET p == parsedScripts[sm[tb.Script].Content]
          IN IF ~ p.ok
               THEN TopNext(s, [kind |-> "failed to parse script", name |-> tb.Script,
                                val |-> <<>>, cause |-> "invalid command",
                                causeVal |-> p.content])
               ELSE MainLoop([s EXCEPT !.ex.phase = "main", !.ex.attempt = 1,
                                       !.ex.sub = 1, !.ex.lastError = NoErr,
                                       !.ex.tcmds = p.commands, !.ex.xcmds = <<>>,
                                       !.ex.maxRetries = maxRetriesOf(tb)])

\* A plausible slip: the scripts of the try blocks are searched for a Monitor
\* as well.
hasMonitorCommandInTries ==
  \E i \in 1..Len(commands) :
    \/ commands[i].Type = "monitor"
    \/ /\ commands[i].Type = "try"
       /\ \E n \in {commands[i].TryBlock.Script, commands[i].TryBlock.Except}
                   \cap DOMAIN commands[i].ScriptMap :
            LET p == parsedScripts[commands[i].ScriptMap[n].Content]
            IN p.ok /\ \E j \in 1..Len(p.commands) : p.commands[j].Type = "monitor"

\* executeScriptWithTimeout, lines 304-311
hasMonitorCommand == \E i \in 1..Len(commands) : commands[i].Type = "monitor"

(***************************************************************************)
(* Actions of the executor goroutine.                                      *)
(***************************************************************************)
\* The process is running: the goroutines have been started and main has not exited.
Alive == mainPc \in {"select", "parked", "woken", "returned"}

Dispatched == [ex |-> ex, trace |-> Append(trace, Entry(CurCmd))]
Running == [ex |-> ex, trace |-> trace]

\* The executor moves to r; a finished executeScript puts its result on done.
Commit(r) ==
  /\ ex' = r.ex
  /\ trace' = r.trace
  /\ done' = IF r.ex.pc = "finished" THEN Append(done, r.ex.result) ELSE done

\* handleSend: one write to the port, which may fail
Send ==
  /\ Alive /\ ex.pc = "dispatch" /\ CurCmd.Type = "send"
  /\ \E ok \in BOOLEAN :
       /\ written' = IF ok THEN Append(written, sendBytes(CurCmd.Value)) ELSE written
       /\ Commit(AfterCommand(Dispatched,
                 IF ok THEN NoErr ELSE MkErr("failed to send data", "", CurCmd.Value)))
  /\ UNCHANGED <<setup, port, received, commands, scriptTimeout, now, mainPc, ctxDeadline, runResult, readChan, rdPc,
                 nRead, wait>>

\* The characters the entries of the history tr consumed, in order.
RECURSIVE consumedBy(_)
consumedBy(tr) == IF tr = <<>> THEN <<>> ELSE tr[1].consumed \o consumedBy(Tail(tr))

\* A plausible slip: the buffer of an Expect is that of the session, and holds
\* what the commands before it consumed.
ExpectStartSessionBuffer ==
  /\ Alive /\ ex.pc = "dispatch" /\ CurCmd.Type = "expect"
  /\ LET ep == parseExpectPattern(CurCmd.Value)
     IN IF ~ ep.ok
          THEN /\ Commit(AfterCommand(Dispatched,
                           MkErr("invalid expect pattern", "", CurCmd.Value)))
               /\ wait' = wait
          ELSE /\ Commit([Dispatched EXCEPT !.ex.pc = "wait"])
               /\ wait' = [NoWait EXCEPT !.kind = "expect", !.raw = CurCmd.Value,
                                         !.ep = ep, !.timed = TRUE,
                                         !.buffer = consumedBy(trace),
                                         !.deadline = now + receiveTimeout]
  /\ UNCHANGED <<setup, port, received, commands, scriptTimeout, now, mainPc, ctxDeadline, runResult, readChan, rdPc,
                 nRead, written>>

\* A plausible slip: the pattern is looked for before the first character is
\* waited for.
ExpectStartChecksFirst ==
  /\ Alive /\ ex.pc = "dispatch" /\ CurCmd.Type = "expect"
  /\ LET ep == parseExpectPattern(CurCmd.Value)
     IN IF ~ ep.ok
          THEN /\ Commit(AfterCommand(Dispatched,
                           MkErr("invalid expect pattern", "", CurCmd.Value)))
               /\ wait' = wait
        ELSE IF checkMatch(ep, <<>>, <<>>)
          THEN /\ Commit(AfterCommand(Dispatched, NoErr))
               /\ wait' = wait
          ELSE /\ Commit([Dispatched EXCEPT !.ex.pc = "wait"])
               /\ wait' = [NoWait EXCEPT !.kind = "expect", !.raw = CurCmd.Value,
                                         !.ep = ep, !.timed = TRUE,
                                         !.deadline = now + receiveTimeout]
  /\ UNCHANGED <<setup, port, received, commands, scriptTimeout, now, mainPc, ctxDeadline, runResult, readChan, rdPc,
                 nRead, written>>

\* handleExpect, lines 874-884: compile the pattern and start the timer
ExpectStart ==
  /\ Alive /\ ex.pc = "dispatch" /\ CurCmd.Type = "expect"
  /\ LET ep == parseExpectPattern(CurCmd.Value)
     IN IF ~ ep.ok
          THEN /\ Commit(AfterCommand(Dispatched,
                           MkErr("invalid expect pattern", "", CurCmd.Value)))
               /\ wait' = wait
          ELSE /\ Commit([Dispatched EXCEPT !.ex.pc = "wait"])
               /\ wait' = [NoWait EXCEPT !.kind = "expect", !.raw = CurCmd.Value,
                                         !.ep = ep, !.timed = TRUE,
                                         !.deadline = now + receiveTimeout]
  /\ UNCHANGED <<setup, port, received, commands, scriptTimeout, now, mainPc, ctxDeadline, runResult, readChan, rdPc,
                 nRead, written>>

\* History: the command in progress consumed character c.
Consumed(tr, c) == [tr EXCEPT ![Len(tr)].consumed = Append(tr[Len(tr)].consumed, c)]

\* handleExpect, lines 888-901: one character from readChan
ExpectChar ==
  /\ Alive /\ ex.pc = "wait" /\ wait.kind = "expect"
  /\ readChan # <<>>
  /\ LET char == Head(readChan)
         buffer == Append(wait.buffer, char)
         currentLine == IF char = "\n" THEN <<>> ELSE Append(wait.currentLine, char)
         s == [ex |-> ex, trace |-> Consumed(trace, char)]
     IN /\ readChan' = Tail(readChan)
        /\ IF checkMatch(wait.ep, buffer, currentLine)
             THEN /\ Commit(AfterCommand(s, NoErr))
                  /\ wait' = NoWait
             ELSE /\ Commit(s)
                  /\ wait' = [wait EXCEPT !.buffer = buffer, !.currentLine = currentLine]
  /\ UNCHANGED <<setup, port, received, commands, scriptTimeout, now, mainPc, ctxDeadline, runResult, rdPc, nRead, written>>

\* A plausible slip: the timer case ends in a break, which leaves the select and
\* not the loop, so that the Expect goes on waiting with its timer spent.
ExpectTimeoutBreaksSelect ==
  /\ Alive /\ ex.pc = "wait" /\ wait.kind = "expect"
  /\ wait.timed /\ now >= wait.deadline
  /\ wait' = [wait EXCEPT !.timed = FALSE]
  /\ UNCHANGED <<setup, port, received, commands, scriptTimeout, now, mainPc, ctxDeadline, done, runResult,
                 readChan, rdPc, nRead, written, ex, trace>>

\* handleExpect, lines 903-904: the receive timer fired
ExpectTimeout ==
  /\ Alive /\ ex.pc = "wait" /\ wait.kind = "expect"
  /\ now >= wait.deadline
  /\ Commit(AfterCommand(Running, MkErr("receive timeout", "", wait.raw)))
  /\ wait' = NoWait
  /\ UNCHANGED <<setup, port, received, commands, scriptTimeout, now, mainPc, ctxDeadline, runResult, readChan, rdPc,
                 nRead, written>>

\* handleMonitor, lines 773-807: parse the parameter and start the timer
MonitorStart ==
  /\ Alive /\ ex.pc = "dispatch" /\ CurCmd.Type = "monitor"
  /\ LET m == monitorParameter(CurCmd.Value)
     IN IF ~ m.ok
          THEN /\ Commit(AfterCommand(Dispatched,
                           MkErr("invalid monitor parameter", "", CurCmd.Value)))
               /\ wait' = wait
          ELSE /\ Commit([Dispatched EXCEPT !.ex.pc = "wait"])
               /\ wait' = [NoWait EXCEPT !.kind = "monitor", !.raw = CurCmd.Value,
                                         !.maxLines = m.maxLines,
                                         !.timed = (m.maxLines = 0),
                                         !.deadline = now + m.monitorDuration]
  /\ UNCHANGED <<setup, port, received, commands, scriptTimeout, now, mainPc, ctxDeadline, runResult, readChan, rdPc,
                 nRead, written>>

\* A plausible slip: every character counts as a line, and the Monitor ends
\* on the character that reaches the count.
MonitorCharCountsCharacters ==
  /\ Alive /\ ex.pc = "wait" /\ wait.kind = "monitor"
  /\ readChan # <<>>
  /\ LET char == Head(readChan)
         lineCount == wait.lineCount + 1
         s == [ex |-> ex, trace |-> Consumed(trace, char)]
     IN /\ readChan' = Tail(readChan)
        /\ IF wait.maxLines > 0 /\ lineCount >= wait.maxLines
             THEN /\ Commit(AfterCommand(s, NoErr))
                  /\ wait' = NoWait
             ELSE /\ Commit(s)
                  /\ wait' = [wait EXCEPT
                                !.buffer = IF char = "\n" THEN <<>> ELSE Append(wait.buffer, char),
                                !.lineCount = lineCount]
  /\ UNCHANGED <<setup, port, received, commands, scriptTimeout, now, mainPc, ctxDeadline, runResult, rdPc, nRead, written>>

\* handleMonitor, lines 811-826: one character from readChan
MonitorChar ==
  /\ Alive /\ ex.pc = "wait" /\ wait.kind = "monitor"
  /\ readChan # <<>>
  /\ LET char == Head(readChan)
         lineCount == IF char = "\n" THEN wait.lineCount + 1 ELSE wait.lineCount
         s == [ex |-> ex, trace |-> Consumed(trace, char)]
     IN /\ readChan' = Tail(readChan)
        /\ IF char = "\n" /\ wait.maxLines > 0 /\ lineCount >= wait.maxLines
             THEN /\ Commit(AfterCommand(s, NoErr))
                  /\ wait' = NoWait
             ELSE /\ Commit(s)
                  /\ wait' = [wait EXCEPT
                                !.buffer = IF char = "\n" THEN <<>> ELSE Append(wait.buffer, char),
                                !.lineCount = lineCount]
  /\ UNCHANGED <<setup, port, received, commands, scriptTimeout, now, mainPc, ctxDeadline, runResult, rdPc, nRead, written>>

\* A plausible slip: the timer of a Monitor is handled like the timer of an
\* Expect, and its firing is reported as a timeout.
MonitorTimeoutFails ==
  /\ Alive /\ ex.pc = "wait" /\ wait.kind = "monitor"
  /\ wait.timed /\ now >= wait.deadline
  /\ Commit(AfterCommand(Running, MkErr("receive timeout", "", wait.raw)))
  /\ wait' = NoWait
  /\ UNCHANGED <<setup, port, received, commands, scriptTimeout, now, mainPc, ctxDeadline, runResult, readChan, rdPc,
                 nRead, written>>

\* handleMonitor, lines 828-833: the duration elapsed
MonitorTimeout ==
  /\ Alive /\ ex.pc = "wait" /\ wait.kind = "monitor"
  /\ wait.timed /\ now >= wait.deadline
  /\ Commit(AfterCommand(Running, NoErr))
  /\ wait' = NoWait
  /\ UNCHANGED <<setup, port, received, commands, scriptTimeout, now, mainPc, ctxDeadline, runResult, readChan, rdPc,
                 nRead, written>>

\* executeScript, lines 350-353: a try command enters handleTry
TryStart ==
  /\ Alive /\ ex.pc = "dispatch" /\ ex.phase = "none" /\ CurCmd.Type = "try"
  /\ Commit(EnterTry(Dispatched))
  /\ UNCHANGED <<setup, port, received, commands, scriptTimeout, now, mainPc, ctxDeadline, runResult, readChan, rdPc,
                 nRead, written, wait>>

(***************************************************************************)
(* Actions of the main goroutine.                                          *)
(***************************************************************************)
\* A plausible slip: the extension for monitor commands is left out.
sessionBoundNotExtended == scriptTimeout

\* executeScriptWithTimeout, lines 297 and 313-318: the bound of the session
sessionBound == IF hasMonitorCommand THEN ExtendedTimeout ELSE scriptTimeout

\* executeScriptWithTimeout, lines 295-324: the context, the reader goroutine
\* and the executor goroutine are started
StartSession ==
  /\ mainPc = "start"
  /\ mainPc' = "select"
  /\ ctxDeadline' = now + sessionBound
  /\ rdPc' = "read"
  /\ Commit(IF Len(commands) = 0
              THEN Finish(Running, NoErr)
              ELSE [Running EXCEPT !.ex.pc = "dispatch", !.ex.ip = 1])
  /\ UNCHANGED <<setup, port, received, commands, scriptTimeout, now, runResult, readChan, nRead, written, wait>>

\* executeScriptWithTimeout, line 326: no case of the select is ready and the
\* main goroutine blocks in it
Park ==
  /\ mainPc = "select"
  /\ done = <<>> /\ now < ctxDeadline
  /\ mainPc' = "parked"
  /\ UNCHANGED <<setup, port, received, commands, scriptTimeout, now, ctxDeadline, done, runResult,
                 readChan, rdPc, nRead, written, ex, wait, trace>>

\* executeScriptWithTimeout, lines 327-328: the select receives from done.  A
\* select evaluated with both cases ready takes either.
SelectDone ==
  /\ mainPc \in {"select", "parked"}
  /\ done # <<>>
  /\ runResult' = Head(done)
  /\ done' = Tail(done)
  /\ mainPc' = "returned"
  /\ UNCHANGED <<setup, port, received, commands, scriptTimeout, now, ctxDeadline, readChan, rdPc, nRead,
                 written, ex, wait, trace>>

\* executeScriptWithTimeout, lines 329-333: the select receives from ctx.Done()
SelectTimeout ==
  /\ \/ mainPc = "select" /\ now >= ctxDeadline
     \/ mainPc = "woken"
  /\ runResult' = IF hasMonitorCommand
                    THEN MkErr("script timeout exceeded (extended for monitor commands)", "", <<>>)
                    ELSE MkErr("script timeout exceeded", "", <<>>)
  /\ mainPc' = "returned"
  /\ UNCHANGED <<setup, port, received, commands, scriptTimeout, now, ctxDeadline, done, readChan, rdPc,
                 nRead, written, ex, wait, trace>>

\* main, lines 167-178: on an error Fatalf exits the process through os.Exit,
\* which runs no deferred call, so that the Close deferred at line 167 runs
\* only when main returns; either way every goroutine ends
Exit ==
  /\ mainPc = "returned"
  /\ mainPc' = "exited"
  /\ port' = IF runResult = NoErr THEN "closed" ELSE port
  /\ UNCHANGED <<setup, received, commands, scriptTimeout, now, ctxDeadline, done, runResult, readChan, rdPc,
                 nRead, written, ex, wait, trace>>

(***************************************************************************)
(* Actions of the reader goroutine.                                        *)
(***************************************************************************)
\* se.commands of the sessions in which readChan fills up: a Send that keeps
\* the executor from readChan, alone or before another command
QueuePrograms ==
  { << [Type |-> "send", Value |-> vQuotedB] >> }
    \cup { << [Type |-> "send", Value |-> vQuotedB], c >> :
             c \in PlainCommands
                    \cup { parseTryBlock(ConfigScripts,
                                         [Name |-> "t1", Script |-> "main", Except |-> "recover",
                                          Retry |-> FALSE]) } }

\* Most bytes the device delivers in the session: in the sessions in which
\* readChan fills up, one more than readChan holds
DeviceBytes == IF commands \in QueuePrograms THEN QueueCap + 1 ELSE MaxInput

\* A plausible slip: the reader does not wait for room in readChan, and a
\* byte that finds it full is dropped.
ReaderReadDropsWhenFull ==
  /\ Alive /\ rdPc \in {"read", "erred"}
  /\ nRead < DeviceBytes
  /\ \E c \in Alphabet :
       /\ readChan' = IF Len(readChan) < QueueCap THEN Append(readChan, c) ELSE readChan
       /\ received' = Append(received, c)
  /\ nRead' = nRead + 1
  /\ UNCHANGED <<setup, port, commands, scriptTimeout, now, mainPc, ctxDeadline, done, runResult, rdPc,
                 written, ex, wait, trace>>

\* A plausible slip: every byte is sent on readChan by a goroutine of its own,
\* so that it lands anywhere among the bytes still queued.
ReaderReadUnordered ==
  /\ Alive /\ rdPc \in {"read", "erred"}
  /\ nRead < DeviceBytes
  /\ Len(readChan) < QueueCap
  /\ \E c \in Alphabet, k \in 0..Len(readChan) :
       /\ readChan' = SubSeq(readChan, 1, k) \o <<c>> \o SubSeq(readChan, k + 1, Len(readChan))
       /\ received' = Append(received, c)
  /\ nRead' = nRead + 1
  /\ UNCHANGED <<setup, port, commands, scriptTimeout, now, mainPc, ctxDeadline, done, runResult, rdPc,
                 written, ex, wait, trace>>

\* readSerial, lines 636-649: ReadByte returns a byte of the device and the
\* reader sends it on readChan; the send blocks while readChan is full, and a
\* byte the blocked reader holds is one the executor cannot see yet
ReaderRead ==
  /\ Alive /\ rdPc \in {"read", "erred"}
  /\ nRead < DeviceBytes
  /\ Len(readChan) < QueueCap
  /\ \E c \in Alphabet : /\ readChan' = Append(readChan, c)
                         /\ received' = Append(received, c)
  /\ nRead' = nRead + 1
  /\ UNCHANGED <<setup, port, commands, scriptTimeout, now, mainPc, ctxDeadline, done, runResult, rdPc,
                 written, ex, wait, trace>>

\* readSerial, lines 637-644: ReadByte returns an error that is not io.EOF; the
\* reader logs it and goes round its loop to the next ReadByte
ReaderError ==
  /\ Alive /\ rdPc = "read"
  /\ rdPc' = "erred"
  /\ UNCHANGED <<setup, port, received, commands, scriptTimeout, now, mainPc, ctxDeadline,
                 done, runResult, readChan, nRead, written, ex, wait, trace>>

\* readSerial, lines 637-641: ReadByte returns io.EOF and the reader returns
ReaderEOF ==
  /\ Alive /\ rdPc \in {"read", "erred"}
  /\ rdPc' = "stopped"
  /\ UNCHANGED <<setup, port, received, commands, scriptTimeout, now, mainPc, ctxDeadline, done, runResult, readChan,
                 nRead, written, ex, wait, trace>>

(***************************************************************************)
(* Time.                                                                   *)
(***************************************************************************)
\* The executor goroutine can take a step: it is not blocked in a select.
ExecutorReady ==
  \/ ex.pc = "dispatch"
  \/ ex.pc = "wait" /\ readChan # <<>>
  \/ ex.pc = "wait" /\ wait.timed /\ now >= wait.deadline

\* One tick passes.  Computation takes no time: the clock advances only while
\* main is blocked in its select and the executor is blocked in one or has
\* returned.  The tick that reaches the deadline of ctx wakes main, which then
\* returns the timeout whatever becomes ready later.
Tick ==
  /\ mainPc = "parked"
  /\ done = <<>>
  /\ ~ ExecutorReady
  /\ now' = now + 1
  /\ mainPc' = IF now + 1 >= ctxDeadline THEN "woken" ELSE "parked"
  /\ UNCHANGED <<setup, port, received, commands, scriptTimeout, ctxDeadline, done, runResult, readChan,
                 rdPc, nRead, written, ex, wait, trace>>

Next ==
  \/ StartSession
  \/ Park
  \/ SelectDone
  \/ SelectTimeout
  \/ Exit
  \/ ReaderRead
  \/ ReaderEOF
  \/ Send
  \/ ExpectStart
  \/ ExpectChar
  \/ ExpectTimeout
  \/ MonitorStart
  \/ MonitorChar
  \/ MonitorTimeout
  \/ TryStart
  \/ Tick

Spec == Init /\ [][Next]_vars

(***************************************************************************)
(* main before the session: resolution, parse, and the opening of the port.*)
(***************************************************************************)
\* parseTryBlock, lines 549-559: the first try block of that name, 0 if none
findTryBlock(cfg, tryBlockName) ==
  LET ks == {k \in 1..Len(cfg.Tries) : cfg.Tries[k].Name = tryBlockName}
  IN IF ks = {} THEN 0 ELSE CHOOSE k \in ks : \A j \in ks : k <= j

\* main, lines 130-149: the selected units parsed in order and concatenated
RECURSIVE buildCommands(_, _, _, _)
buildCommands(cfg, units, i, allCommands) ==
  IF i > Len(units) THEN [err |-> NoErr, commands |-> allCommands]
  ELSE IF HasPrefix(units[i].Content, TryBlockMarker)
    THEN LET tryBlockName == TrimPrefix(units[i].Content, TryBlockMarker)[1]
             k == findTryBlock(cfg, tryBlockName)
         IN IF k = 0
              THEN [err |-> MkErr("try block not found", tryBlockName, <<>>),
                    commands |-> <<>>]
              ELSE buildCommands(cfg, units, i + 1,
                     Append(allCommands, parseTryBlock(cfg.Scripts, cfg.Tries[k])))
  ELSE LET p == parsedScripts[units[i].Content]
       IN IF ~ p.ok
            THEN [err |-> MkErr("Failed to parse script", units[i].Name, p.content),
                  commands |-> <<>>]
            ELSE buildCommands(cfg, units, i + 1, allCommands \o p.commands)

\* main, lines 124-127: selectScripts; an error ends the process
SelectScripts ==
  /\ mainPc = "resolve"
  /\ scriptsToExecute' = selectScripts(config, scriptNames)
  /\ mainPc' = IF scriptsToExecute'.ok THEN "build" ELSE "fatal"
  /\ UNCHANGED <<config, scriptNames, parseInput, parseOutcome, fnInput, fnOutput, dry, port, received,
                 commands, scriptTimeout, now, ctxDeadline, done, runResult,
                 readChan, rdPc, nRead, written, ex, wait, trace>>

\* main, lines 129-151: the commands of the session; a parse error ends the
\* process
BuildCommands ==
  /\ mainPc = "build"
  /\ LET b == buildCommands(config, scriptsToExecute.scripts, 1, <<>>)
     IN /\ commands' = b.commands
        /\ runResult' = b.err
        /\ mainPc' = IF b.err = NoErr THEN "open" ELSE "fatal"
  /\ UNCHANGED <<setup, port, received, scriptTimeout, now, ctxDeadline, done,
                 readChan, rdPc, nRead, written, ex, wait, trace>>

\* main, lines 162-167: openSerial; an error ends the process
OpenSerial ==
  /\ mainPc = "open"
  /\ \E opened \in BOOLEAN :
       /\ port' = IF opened THEN "open" ELSE port
       /\ mainPc' = IF opened THEN "start" ELSE "fatal"
  /\ UNCHANGED <<setup, received, commands, scriptTimeout, now, ctxDeadline, done,
                 runResult, readChan, rdPc, nRead, written, ex, wait, trace>>

\* The configurations whose sessions the model runs: an unnamed script, which
\* the resolver knows as script1, four named ones, and one try block, or two
\* with the second referring to the first.
SessionScripts ==
  << [Name |-> "", Content |-> mainBody],
     [Name |-> "recover", Content |-> recoverBody],
     [Name |-> "broken", Content |-> brokenBody],
     [Name |-> "badpat", Content |-> badPatternBody],
     [Name |-> "mon", Content |-> monitorBody] >>

SessionTries ==
  { << [Name |-> "t1", Script |-> s, Except |-> e, Retry |-> r] >> :
      s \in {"script1", "recover", "broken", "badpat"},
      e \in {"", "recover", "script1", "broken"},
      r \in BOOLEAN }
  \cup
  { << [Name |-> "t1", Script |-> "recover", Except |-> "", Retry |-> FALSE],
       [Name |-> "t2", Script |-> "t1", Except |-> "", Retry |-> FALSE] >> }

SessionConfigs == { [Scripts |-> SessionScripts, Tries |-> tr] : tr \in SessionTries }

SessionRequests == { <<>>, <<"t1">>, <<"mon", "t1">>, <<"t2">>, <<"recover", "unknown">> }

\* main before selectScripts, line 124: nothing is resolved, parsed or opened
Unresolved ==
  /\ commands = <<>>
  /\ now = 0
  /\ mainPc = "resolve"
  /\ ctxDeadline = 0
  /\ done = <<>>
  /\ runResult = NoErr
  /\ readChan = <<>>
  /\ rdPc = "idle"
  /\ nRead = 0
  /\ written = <<>>
  /\ ex = IdleEx
  /\ wait = NoWait
  /\ trace = <<>>
  /\ port = "unopened"
  /\ received = <<>>
  /\ scriptsToExecute = NoSelection
  /\ parseInput = <<>>
  /\ parseOutcome = NoOutcome
  /\ fnInput = <<>>
  /\ fnOutput = <<>>
  /\ dry = NoDryRun

\* The resolver applied to a configuration and a list of requested names.
SelectInit ==
  /\ Unresolved
  /\ scriptTimeout = 0
  /\ config \in Configs
  /\ scriptNames \in Requests

SelectSpec == SelectInit /\ [][SelectScripts]_vars

\* main from selectScripts to its exit.
MainInit ==
  /\ Unresolved
  /\ scriptTimeout \in ScriptTimeouts
  /\ config \in SessionConfigs
  /\ scriptNames \in SessionRequests

ProgramNext == SelectScripts \/ BuildCommands \/ OpenSerial \/ Next

MainSpec == MainInit /\ [][ProgramNext]_vars

\* parseScript applied to a script text.
ParseScript ==
  /\ mainPc = "parse"
  /\ parseOutcome' = parseScript(parseInput)
  /\ mainPc' = "parsed"
  /\ UNCHANGED <<config, scriptNames, scriptsToExecute, parseInput, fnInput, fnOutput, dry, port, received,
                 commands, scriptTimeout, now, ctxDeadline, done, runResult,
                 readChan, rdPc, nRead, written, ex, wait, trace>>

ParseInit ==
  /\ parseInput \in ScriptTexts
  /\ parseOutcome = NoOutcome
  /\ fnInput = <<>>
  /\ fnOutput = <<>>
  /\ dry = NoDryRun
  /\ mainPc = "parse"
  /\ config = NoConfig
  /\ scriptNames = <<>>
  /\ scriptsToExecute = NoSelection
  /\ commands = <<>>
  /\ scriptTimeout = 0
  /\ now = 0
  /\ ctxDeadline = 0
  /\ done = <<>>
  /\ runResult = NoErr
  /\ readChan = <<>>
  /\ rdPc = "idle"
  /\ nRead = 0
  /\ written = <<>>
  /\ ex = IdleEx
  /\ wait = NoWait
  /\ trace = <<>>
  /\ port = "unopened"
  /\ received = <<>>

ParseSpec == ParseInit /\ [][ParseScript]_vars

\* The steps of handleExpect's select and of the main goroutine.
ExpectStep == ExpectChar \/ ExpectTimeout
MainStep == StartSession \/ Park \/ SelectDone \/ SelectTimeout \/ Exit

\* The sessions whose script begins with an Expect or with a try block that
\* has a recovery script, so that an Expect runs at the top level, in an
\* attempt, and in an except script.
ExpectPrograms ==
  {p \in Programs :
     /\ p[1].Type \in {"expect", "try"}
     /\ p[1].Type = "try" => p[1].TryBlock.Except = "recover"
     /\ Len(p) = 2 => p[2].Type \in {"send", "monitor"}}

ExpectInit == Init /\ commands \in ExpectPrograms

\* The scheduler runs a goroutine that can leave its select, main included,
\* and time passes; what the device sends, and when, is left open.
FairSpec ==
  /\ ExpectInit /\ [][Next]_vars
  /\ WF_vars(ExpectStep) /\ WF_vars(MainStep) /\ WF_vars(Tick)

\* The same sessions on a port whose reads can also fail with an error other
\* than io.EOF (a device unplugged, a port closed under the reader).
ReaderNext == Next \/ ReaderError

ReaderSpec == ExpectInit /\ [][ReaderNext]_vars

(***************************************************************************)
(* Properties.  They are stated over the history in trace, which holds one *)
(* entry per command dispatched: where it was dispatched from (top-level    *)
(* command ip, context, attempt, index in its script), what it was, how it  *)
(* ended and which characters it took from readChan.                        *)
(***************************************************************************)
TimeoutKinds ==
  {"script timeout exceeded", "script timeout exceeded (extended for monitor commands)"}

TraceIdx == 1..Len(trace)
Failed(e) == e.err # NoErr /\ e.err # Pending
TopEntries == {k \in TraceIdx : trace[k].ctx = "top"}
MainEntries(i) == {k \in TraceIdx : trace[k].ctx = "main" /\ trace[k].ip = i}
MainOf(i, a) == {k \in MainEntries(i) : trace[k].attempt = a}
ExceptOf(i) == {k \in TraceIdx : trace[k].ctx = "except" /\ trace[k].ip = i}

\* The entries of S carry the indices 1, 2, 3, ... in the order they were made.
InOrder(S) == \A k \in S : trace[k].idx = Cardinality({j \in S : j <= k})

\* The try commands that were started, and the outcome of one.
TryStarted ==
  {i \in 1..Len(commands) :
     commands[i].Type = "try" /\ \E k \in TopEntries : trace[k].ip = i}
TryErr(i) == trace[CHOOSE k \in TopEntries : trace[k].ip = i].err

\* The attempts of try command i that were started, the attempts it is allowed,
\* and the commands its main and except scripts hold.
AttemptsMade(i) == {trace[k].attempt : k \in MainEntries(i)}
AttemptsAllowed(i) == IF commands[i].TryBlock.Retry THEN 2 ELSE 1
MainCommands(i) ==
  parsedScripts[commands[i].ScriptMap[commands[i].TryBlock.Script].Content].commands
ExceptCommands(i) ==
  parsedScripts[commands[i].ScriptMap[commands[i].TryBlock.Except].Content].commands
AttemptFailed(i, a) == \E k \in MainOf(i, a) : Failed(trace[k])
AttemptOver(i, a) ==
  /\ Cardinality(MainOf(i, a)) = Len(MainCommands(i))
  /\ \A k \in MainOf(i, a) : trace[k].err # Pending

\* Every attempt try command i is allowed was made, is over and failed.
AllAttemptsFailed(i) ==
  /\ AttemptsMade(i) = 1..AttemptsAllowed(i)
  /\ \A a \in AttemptsMade(i) : AttemptOver(i, a) /\ AttemptFailed(i, a)

\* The error the main script of try command i ended its last attempt with: the
\* one of the last command that failed in it.
MainScriptError(i) ==
  LET F == {k \in MainOf(i, AttemptsAllowed(i)) : Failed(trace[k])}
  IN trace[CHOOSE k \in F : \A j \in F : j <= k].err

\* The except script of try command i can be run: none is named, or the one
\* named exists and parses.
ExceptUsable(i) ==
  LET tb == commands[i].TryBlock
      sm == commands[i].ScriptMap
  IN \/ tb.Except = ""
     \/ tb.Except \in DOMAIN sm /\ parsedScripts[sm[tb.Except].Content].ok

\* C1: a try block makes at most two attempts when its retry flag is set and
\* one when it is not; every attempt runs the main script from its first
\* command on, in order; an attempt is made only after the one before failed;
\* an attempt that ends without error makes the Try return success at once,
\* with no further attempt and no except script; the except script runs at
\* most once, and only after every allowed attempt has been made and failed.
C1_TryAttempts ==
  \A i \in TryStarted :
    /\ AttemptsMade(i) \subseteq 1..AttemptsAllowed(i)
    /\ \A a \in AttemptsMade(i) :
         /\ InOrder(MainOf(i, a))
         /\ a > 1 => /\ AttemptOver(i, a - 1) /\ AttemptFailed(i, a - 1)
                     /\ \A j \in MainOf(i, a - 1), k \in MainOf(i, a) : j < k
         /\ (AttemptOver(i, a) /\ ~ AttemptFailed(i, a))
              => /\ TryErr(i) = NoErr
                 /\ (a + 1) \notin AttemptsMade(i)
                 /\ ExceptOf(i) = {}
    /\ TryErr(i) = NoErr
         => \E a \in AttemptsMade(i) : AttemptOver(i, a) /\ ~ AttemptFailed(i, a)
    /\ InOrder(ExceptOf(i))
    /\ (ExceptOf(i) # {} \/ Failed([err |-> TryErr(i)]))
         => /\ AllAttemptsFailed(i)
            /\ \A j \in MainEntries(i), k \in ExceptOf(i) : j < k

\* C1, witness: a try block with the retry flag made two attempts, both failed,
\* and its except script was entered.
C1_Witness ==
  \E i \in TryStarted :
    /\ commands[i].TryBlock.Retry
    /\ AttemptsMade(i) = {1, 2}
    /\ AllAttemptsFailed(i)
    /\ ExceptOf(i) # {}

C3_FailureEndsAttempt ==
  \A i \in TryStarted : \A a \in AttemptsMade(i) :
    \A j \in MainOf(i, a), k \in MainOf(i, a) :
      (j < k) => ~ Failed(trace[j])

\* C4: once the except script has been entered, its commands are attempted
\* once each, in script order, and a failing one does not stop the others: a
\* Try that returned after its except script ran has attempted all of them.
C4_ExceptRunsAll ==
  \A i \in TryStarted :
    /\ InOrder(ExceptOf(i))
    /\ \A k \in ExceptOf(i) :
         /\ trace[k].idx <= Len(ExceptCommands(i))
         /\ trace[k].Type = ExceptCommands(i)[trace[k].idx].Type
         /\ trace[k].Value = ExceptCommands(i)[trace[k].idx].Value
         /\ (k # Len(trace) \/ TryErr(i) # Pending) => trace[k].err # Pending
    /\ (AllAttemptsFailed(i) /\ TryErr(i) # Pending /\ ExceptUsable(i)
          /\ commands[i].TryBlock.Except # "")
         => Cardinality(ExceptOf(i)) = Len(ExceptCommands(i))

\* C4, witness: the first command of an except script failed, the second one
\* was attempted all the same, and the Try returned.
C4_Witness ==
  \E i \in TryStarted :
    /\ TryErr(i) # Pending
    /\ \E j \in ExceptOf(i), k \in ExceptOf(i) :
         /\ trace[j].idx = 1 /\ Failed(trace[j])
         /\ trace[k].idx = 2 /\ trace[k].err = NoErr

\* C5: the top-level commands run in list order, one at a time, each started
\* only after the one before returned without error; when one returns an
\* error no later command runs, executeScript returns that very error, and
\* that error is what the session receives from the executor.
C5_TopLevelInOrder ==
  /\ \A k \in TopEntries :
       /\ trace[k].ip = Cardinality({j \in TopEntries : j <= k})
       /\ trace[k].Type = commands[trace[k].ip].Type
       /\ trace[k].ip > 1
            => \E j \in TopEntries : /\ j < k /\ trace[j].ip = trace[k].ip - 1
                                     /\ trace[j].err = NoErr
       /\ Failed(trace[k])
            => /\ \A j \in TraceIdx : trace[j].ip <= trace[k].ip
               /\ ex.pc = "finished" /\ ex.result = trace[k].err
               /\ done = <<trace[k].err>> \/ runResult = trace[k].err
  /\ \A j \in TraceIdx, k \in TraceIdx : j < k => trace[j].ip <= trace[k].ip
  /\ \A k \in TraceIdx :
       trace[k].err = Pending => (k = Len(trace) \/ trace[k].Type = "try")
  /\ (mainPc \in {"returned", "exited"} /\ runResult.kind \notin TimeoutKinds)
       => /\ ex.pc = "finished" /\ runResult = ex.result
          /\ runResult = NoErr
               => /\ Cardinality(TopEntries) = Len(commands)
                  /\ \A k \in TopEntries : trace[k].err = NoErr

\* C5, witness: the first of two top-level commands succeeded, the second one
\* failed, and its error is the result of the session.
C5_Witness ==
  /\ Len(commands) = 2
  /\ \E j \in TopEntries, k \in TopEntries :
       /\ trace[j].ip = 1 /\ trace[j].err = NoErr
       /\ trace[k].ip = 2 /\ Failed(trace[k])
       /\ mainPc = "returned" /\ runResult = trace[k].err

\* The text after the last newline of d.
LastLine(d) ==
  LET nl == {n \in 1..Len(d) : d[n] = "\n"}
      last == IF nl = {} THEN 0 ELSE CHOOSE n \in nl : \A m \in nl : m <= n
  IN SubSeq(d, last + 1, Len(d))

\* The characters d consumed so far meet the pattern raw, by the rule of its
\* framing: '...' anywhere in d whatever the case, "..." at the start of the
\* last line once its leading blanks are dropped, /.../ on the last line.
Satisfies(raw, d) ==
  LET content == SubSeq(raw, 2, Len(raw) - 1)
  IN IF raw[1] = "'"
       THEN \E n \in 0..(Len(d) - Len(content)) :
              \A m \in 1..Len(content) : LowerChar(d[n + m]) = LowerChar(content[m])
     ELSE IF raw[1] = "\""
       THEN LET line == TrimLeft(LastLine(d))
            IN Len(line) >= Len(content) /\ SubSeq(line, 1, Len(content)) = content
     ELSE RegexMatchString(content, LastLine(d))

\* The characters the commands consumed, in order.
RECURSIVE ConsumedUpTo(_)
ConsumedUpTo(k) == IF k = 0 THEN <<>> ELSE ConsumedUpTo(k - 1) \o trace[k].consumed

\* C6: an Expect looks for its pattern after every character it consumes and
\* returns success at the first one at which the pattern is met: nothing it
\* consumed before met the pattern, it consumes nothing beyond, the characters
\* still queued stay in the queue, and it reports a timeout only when nothing
\* it consumed met the pattern.
C6_ExpectFirstMatch ==
  /\ \A k \in TraceIdx :
       (trace[k].Type = "expect" /\ parseExpectPattern(trace[k].Value).ok)
         => LET c == trace[k].consumed
                raw == trace[k].Value
            IN /\ \A n \in 1..(Len(c) - 1) : ~ Satisfies(raw, SubSeq(c, 1, n))
               /\ trace[k].err = NoErr => Len(c) >= 1 /\ Satisfies(raw, c)
               /\ trace[k].err # NoErr
                    => /\ Len(c) >= 1 => ~ Satisfies(raw, c)
                       /\ trace[k].err \in {Pending, MkErr("receive timeout", "", raw)}
  /\ Len(ConsumedUpTo(Len(trace))) + Len(readChan) = nRead

\* C6, witness: an Expect matched while a further character was queued, and
\* that character is still in the queue.
C6_Witness ==
  /\ readChan # <<>>
  /\ trace # <<>>
  /\ trace[Len(trace)].Type = "expect"
  /\ trace[Len(trace)].err = NoErr
  /\ Len(trace[Len(trace)].consumed) >= 1

\* An Expect is waiting for its pattern.
ExpectWaiting == ex.pc = "wait" /\ wait.kind = "expect"

\* C7: every Expect terminates: one that is waiting comes to an end, by a match
\* or by the receive-timeout error, and when the process ends under it, it
\* ends no later than the receive timeout counted from the start of that
\* Expect.
C7_ExpectTerminates ==
  ExpectWaiting ~> (~ ExpectWaiting \/ (mainPc = "exited" /\ now <= wait.deadline))

\* C7, witness: an Expect took a character that did not match, the device
\* stopped sending, and the Expect returned the receive-timeout error in a
\* session that was still running.
C7_Witness ==
  /\ rdPc = "stopped"
  /\ mainPc \in {"select", "parked"}
  /\ \E k \in TraceIdx :
       /\ trace[k].Type = "expect"
       /\ Len(trace[k].consumed) >= 1
       /\ trace[k].err = MkErr("receive timeout", "", trace[k].Value)

\* C8: the bound of the session is the extended one exactly when the top-level
\* command list holds a Monitor command, and the configured script timeout
\* otherwise: the session timer is set to that bound, a session is not timed
\* out before it, and the timeout it reports names the bound that applied.
C8_BoundExtendedIffMonitor ==
  LET monitor == \E i \in 1..Len(commands) : commands[i].Type = "monitor"
      bound == IF monitor THEN ExtendedTimeout ELSE scriptTimeout
  IN /\ mainPc # "start" => ctxDeadline = bound
     /\ mainPc = "woken" => now >= bound
     /\ (mainPc \in {"returned", "exited"} /\ runResult.kind \in TimeoutKinds)
          => /\ now >= bound
             /\ runResult.kind =
                  IF monitor
                    THEN "script timeout exceeded (extended for monitor commands)"
                    ELSE "script timeout exceeded"

\* C8, witness: a session with a Monitor command ran past the configured script
\* timeout and was timed out at the extended bound.
C8_Witness ==
  /\ \E i \in 1..Len(commands) : commands[i].Type = "monitor"
  /\ mainPc = "returned"
  /\ now = ExtendedTimeout /\ now > scriptTimeout
  /\ runResult.kind = "script timeout exceeded (extended for monitor commands)"

\* C9: once the session timer has expired, the result of the run is the
\* script-timeout failure, never success and never the error of a command.
C9_TimeoutOverrides ==
  (mainPc \in {"returned", "exited"} /\ now >= ctxDeadline)
    => runResult.kind \in TimeoutKinds

\* C10: after the run has reported the script timeout, the executor starts no
\* command, ends none, writes nothing to the port and takes no character from
\* the queue.
C10_ExecutorStopsAfterTimeout ==
  [][(mainPc = "returned" /\ runResult.kind \in TimeoutKinds)
       => /\ trace' = trace
          /\ written' = written
          /\ Len(readChan') >= Len(readChan)]_vars

(***************************************************************************)
(* Properties of the port, of the queue and of the reader.                 *)
(***************************************************************************)
\* C11: the port, opened once, is closed on every exit path of the session: a
\* process that has exited after a success, after the failure of a command or
\* after a script timeout has closed the port.
C11_PortClosedOnExit == mainPc = "exited" => port = "closed"


\* C12: the characters reach the executor in the order the reader read them,
\* however reader and executor interleave: what the commands consumed, in
\* order, is a prefix of what the reader read, and what they have not consumed
\* is what the queue holds, in order, with nothing lost and nothing twice.
C12_QueueIsFifo ==
  LET consumed == ConsumedUpTo(Len(trace))
  IN /\ Len(consumed) <= Len(received)
     /\ consumed = SubSeq(received, 1, Len(consumed))
     /\ readChan = SubSeq(received, Len(consumed) + 1, Len(received))

\* C12, witness: the reader read two different characters, the executor has
\* consumed the first one and the second one waits in the queue.
C12_Witness ==
  /\ Len(received) = 2 /\ received[1] # received[2]
  /\ ConsumedUpTo(Len(trace)) = <<received[1]>>
  /\ readChan = <<received[2]>>


\* C13: the reader terminates when the channel is closed: once ReadByte has
\* returned io.EOF or a read error, the reader reads nothing more and pushes
\* nothing more into the queue.
C13_ReaderStopsAfterError ==
  [][(rdPc \in {"stopped", "erred"})
       => /\ received' = received
          /\ Len(readChan') <= Len(readChan)]_vars


(***************************************************************************)
(* Properties of resolution and parse.                                     *)
(***************************************************************************)
\* The errors of handleTry's lookups of the main and of the except script.
NotFoundKinds == {"script not found", "except script not found"}

\* C14: in a configuration the resolver accepted, no try command fails at run
\* time because the script its main or except reference names is not found.
C14_ReferencesResolvedBeforeRun ==
  scriptsToExecute.ok =>
    \A k \in TopEntries :
      trace[k].Type = "try" => trace[k].err.kind \notin NotFoundKinds


\* selectScripts has returned.
Resolved == mainPc # "resolve"

\* The names under which the scripts of a configuration are declared: the name
\* attribute, or the default name of a script that has none.
DeclaredScriptNames(cfg) ==
  { IF cfg.Scripts[i].Name = "" THEN DefaultName(i) ELSE cfg.Scripts[i].Name :
      i \in 1..Len(cfg.Scripts) }

DeclaredTryNames(cfg) == { cfg.Tries[k].Name : k \in 1..Len(cfg.Tries) } \ {""}

\* Some try block of the configuration refers to a script that is not declared.
DanglingReference(cfg) ==
  \E k \in 1..Len(cfg.Tries) :
    \/ cfg.Tries[k].Script \notin DeclaredScriptNames(cfg)
    \/ cfg.Tries[k].Except # "" /\ cfg.Tries[k].Except \notin DeclaredScriptNames(cfg)

\* C15: resolution fails for every configuration in which the main reference
\* or the non-empty except reference of some try block names no declared
\* script, whatever names are requested.
C15_DanglingReferenceRejected ==
  (Resolved /\ DanglingReference(config)) => ~ scriptsToExecute.ok

\* The configuration passes the validation of selectScripts: it declares a
\* script or a try block, every try block has a name, and each reference of a
\* try block names a declared script or a try block declared before it.
Accepted(cfg) ==
  /\ Len(cfg.Scripts) + Len(cfg.Tries) > 0
  /\ \A k \in 1..Len(cfg.Tries) :
       LET known == DeclaredScriptNames(cfg) \cup {cfg.Tries[j].Name : j \in 1..(k - 1)}
       IN /\ cfg.Tries[k].Name # ""
          /\ cfg.Tries[k].Script \in known
          /\ cfg.Tries[k].Except = "" \/ cfg.Tries[k].Except \in known

\* The first declared script, under the name script1 if it has none.
FirstScript(cfg) == [cfg.Scripts[1] EXCEPT !.Name = IF @ = "" THEN "script1" ELSE @]

\* C16, as stated: with no name requested, resolution returns exactly one
\* unit whenever a script or a try block is declared: the first script, or
\* the first try block when no script is declared.
C16_DefaultAlwaysOneUnit ==
  (Resolved /\ scriptNames = <<>> /\ Len(config.Scripts) + Len(config.Tries) > 0)
    => /\ scriptsToExecute.ok
       /\ scriptsToExecute.scripts =
            IF Len(config.Scripts) > 0 THEN << FirstScript(config) >>
            ELSE << TryUnit(config.Tries[1].Name) >>

\* C16: with no name requested, resolution of a configuration that passes
\* validation returns exactly one unit, the first declared script; such a
\* configuration always declares a script, so the unit is never a try block.
\* A configuration that does not pass validation yields no unit.
C16_DefaultIsFirstScript ==
  (Resolved /\ scriptNames = <<>>)
    => IF Accepted(config)
         THEN /\ scriptsToExecute.ok
              /\ Len(config.Scripts) > 0
              /\ scriptsToExecute.scripts = << FirstScript(config) >>
         ELSE /\ ~ scriptsToExecute.ok
              /\ scriptsToExecute.scripts = <<>>

\* C16, witness: no name was requested; of two scripts and a try block, the
\* first script, which has no name, is the one unit returned.
C16_Witness ==
  /\ Resolved /\ scriptNames = <<>>
  /\ Len(config.Scripts) = 2 /\ Len(config.Tries) >= 1
  /\ config.Scripts[1].Name = ""
  /\ scriptsToExecute.ok
  /\ scriptsToExecute.scripts = << [Name |-> "script1", Content |-> config.Scripts[1].Content] >>

\* The units a name can stand for: a declared script of that name, or the try
\* block of that name.
UnitsNamed(cfg, n) ==
  { [Name |-> n, Content |-> cfg.Scripts[i].Content] :
      i \in {j \in 1..Len(cfg.Scripts) :
               n = IF cfg.Scripts[j].Name = "" THEN DefaultName(j) ELSE cfg.Scripts[j].Name} }
  \cup { TryUnit(n) : k \in {j \in 1..Len(cfg.Tries) : cfg.Tries[j].Name = n} }

KnownNames(cfg) == DeclaredScriptNames(cfg) \cup DeclaredTryNames(cfg)

\* C17: with names requested, resolution succeeds only if every name is that
\* of a script or of a try block, and then returns one unit per name in the
\* order requested, a name requested twice giving two units; if some name is
\* unknown it fails and returns no unit, and in a configuration that passes
\* validation the error is about the first unknown name.
C17_RequestedNamesInOrder ==
  (Resolved /\ scriptNames # <<>>)
    => LET r == scriptsToExecute
           unknown == {k \in 1..Len(scriptNames) : scriptNames[k] \notin KnownNames(config)}
       IN /\ r.ok => /\ unknown = {}
                     /\ Len(r.scripts) = Len(scriptNames)
                     /\ \A k \in 1..Len(scriptNames) :
                          r.scripts[k] \in UnitsNamed(config, scriptNames[k])
          /\ (Accepted(config) /\ unknown = {}) => r.ok
          /\ unknown # {}
               => /\ ~ r.ok /\ r.scripts = <<>>
                  /\ Accepted(config)
                       => r.err = MkErr("script or try block not found",
                                        scriptNames[CHOOSE k \in unknown :
                                                      \A j \in unknown : k <= j], <<>>)

\* C17, witness: the same try block requested twice gave two units.
C17_Witness ==
  /\ Resolved
  /\ scriptNames = <<"t1", "t1">>
  /\ scriptsToExecute.ok
  /\ scriptsToExecute.scripts = << TryUnit("t1"), TryUnit("t1") >>


\* parseScript has returned.
Parsed == mainPc = "parsed"

\* The lines of a script text as parseScript numbers them, from 1, white space
\* around the text and around each line removed.
TextLines(text) ==
  LET lines == SplitLines(TrimSpace(text))
  IN [i \in 1..Len(lines) |-> TrimSpace(lines[i])]

\* The line is the command cmd in one of the four forms.
IsCommand(line, cmd) ==
  \/ /\ line = kwMonitor
     /\ cmd = [Type |-> "monitor", Value |-> <<>>]
  \/ \E kw \in {<<"send", kwSend>>, <<"expect", kwExpect>>, <<"monitor", kwMonitorSp>>} :
       /\ Len(line) >= Len(kw[2])
       /\ line = kw[2] \o cmd.Value
       /\ cmd.Type = kw[1]

WellFormed(line) ==
  \E t \in {"send", "expect", "monitor"}, k \in 0..Len(line) :
    IsCommand(line, [Type |-> t, Value |-> SubSeq(line, k + 1, Len(line))])

\* C18: parsing a script text is all-or-nothing.  If every non-empty trimmed
\* line has one of the forms send <value>, expect <value>, monitor <value> or
\* monitor, the result is one command per such line, in line order, a bare
\* monitor with an empty value; otherwise the result holds no command, and the
\* error carries the number, counted from 1 in the trimmed text, and the
\* trimmed content of the first line that has none of the forms.
C18_ParseAllOrNothing ==
  Parsed =>
    LET lines == TextLines(parseInput)
        nonEmpty == {i \in 1..Len(lines) : lines[i] # <<>>}
        bad == {i \in nonEmpty : ~ WellFormed(lines[i])}
        r == parseOutcome
    IN IF bad = {}
         THEN /\ r.ok
              /\ Len(r.commands) = Cardinality(nonEmpty)
              /\ \A i \in nonEmpty :
                   IsCommand(lines[i], r.commands[Cardinality({j \in nonEmpty : j <= i})])
         ELSE LET first == CHOOSE i \in bad : \A j \in bad : i <= j
              IN /\ ~ r.ok
                 /\ r.commands = <<>>
                 /\ r.line = first
                 /\ r.content = lines[first]

\* C18, witness: a text whose first line is a command, whose second is blank
\* and whose third is no command was parsed: no command, and an error for line 3.
C18_Witness ==
  /\ Parsed
  /\ Len(TextLines(parseInput)) = 3
  /\ WellFormed(TextLines(parseInput)[1])
  /\ TextLines(parseInput)[2] = <<>>
  /\ parseOutcome = [ok |-> FALSE, commands |-> <<>>, line |-> 3,
                     content |-> <<"w", "a", "i", "t", " ", "5">>]


\* The errors of a script that does not parse: from main's parse of the
\* selected scripts, and from handleTry's parse of the main and of the except
\* script of a try block.
ParseErrorKinds ==
  {"Failed to parse script", "failed to parse script", "failed to parse except script"}

\* A parse error has been reported, before the session or in it.
ParseErrorReported ==
  \/ mainPc = "fatal" /\ runResult.kind \in ParseErrorKinds
  \/ \E k \in TopEntries : trace[k].err.kind \in ParseErrorKinds

\* C19: every script parse error is detected before any channel I/O: when a
\* script of the session, the main and except scripts of a try block included,
\* holds a malformed line, the error is reported with the port not opened,
\* nothing written and no character read.
C19_ParseErrorsBeforeIO ==
  ParseErrorReported => (port = "unopened" /\ written = <<>> /\ received = <<>>)

\* The errors of a command whose expect pattern or monitor parameter is malformed.
MalformedKinds == {"invalid expect pattern", "invalid monitor parameter"}

\* C20: a parse error is never retried: once a command of the main script of
\* a try block has failed because its expect pattern or its monitor parameter
\* is malformed, no further attempt of the main script is made.
C20_MalformedNotRetried ==
  \A k \in TraceIdx :
    (trace[k].ctx = "main" /\ trace[k].err.kind \in MalformedKinds)
      => \A j \in MainEntries(trace[k].ip) : trace[j].attempt <= trace[k].attempt


(***************************************************************************)
(* Sessions of Monitor commands.                                           *)
(***************************************************************************)
\* The parameters of the Monitor commands of these sessions: none, a duration
\* (1s, 0), a line count (1, 2, 00), a negative number and a word.
MonitorValues ==
  { <<>>, vOneSecond, <<"0">>, <<"1">>, <<"2">>, <<"0", "0">>, <<"-", "1">>, <<"x">> }

MonitorCommands == { [Type |-> "monitor", Value |-> v] : v \in MonitorValues }

\* The commands a Monitor of these sessions stands next to.
MonitorNeighbours ==
  { [Type |-> "send", Value |-> vQuotedA],
    [Type |-> "expect", Value |-> vQuotedB],
    parseTryBlock(ConfigScripts,
                  [Name |-> "t1", Script |-> "main", Except |-> "recover", Retry |-> FALSE]) }

\* se.commands: a Monitor alone, or before or after another command, or a try
\* block whose main script or except script is a Monitor, alone or before a
\* Send
MonitorPrograms ==
  { <<m>> : m \in MonitorCommands }
    \cup (LET scripts == ConfigScripts \o << [Name |-> "watch", Content |-> watchBody] >>
              tries == { parseTryBlock(scripts, tb) :
                           tb \in { [Name |-> "t1", Script |-> "watch", Except |-> "", Retry |-> FALSE],
                                    [Name |-> "t1", Script |-> "main", Except |-> "watch",
                                     Retry |-> FALSE] } }
          IN { <<t>> : t \in tries }
               \cup { <<t, [Type |-> "send", Value |-> vQuotedA]>> : t \in tries })
    \cup { <<m, c>> : m \in MonitorCommands, c \in MonitorNeighbours }
    \cup { <<c, m>> : m \in MonitorCommands, c \in MonitorNeighbours }
    \cup { <<m, n>> : m \in MonitorCommands,
                      n \in { [Type |-> "monitor", Value |-> vOneSecond] } }

MonitorInit ==
  /\ commands \in MonitorPrograms
  /\ scriptTimeout \in ScriptTimeouts
  /\ now = 0
  /\ mainPc = "start"
  /\ ctxDeadline = 0
  /\ done = <<>>
  /\ runResult = NoErr
  /\ readChan = <<>>
  /\ rdPc = "idle"
  /\ nRead = 0
  /\ written = <<>>
  /\ ex = IdleEx
  /\ wait = NoWait
  /\ trace = <<>>
  /\ port = "open"
  /\ received = <<>>
  /\ config = NoConfig
  /\ scriptNames = <<>>
  /\ scriptsToExecute = NoSelection
  /\ parseInput = <<>>
  /\ parseOutcome = NoOutcome
  /\ fnInput = <<>>
  /\ fnOutput = <<>>
  /\ dry = NoDryRun

MonitorSpec == MonitorInit /\ [][Next]_vars

\* The Monitor commands dispatched so far.
MonitorEntries == {k \in TraceIdx : trace[k].Type = "monitor"}

\* The number of line ends among the characters d.
RECURSIVE LineEnds(_)
LineEnds(d) ==
  IF d = <<>> THEN 0 ELSE (IF Head(d) = "\n" THEN 1 ELSE 0) + LineEnds(Tail(d))

\* 10, 2m30s and 50: the parameters of the scripts monitor_lines and
\* monitor_time of the example configuration, and of the usage text
vTen == <<"1", "0">>
vFifty == <<"5", "0">>
vTwoMinutesThirty == <<"2", "m", "3", "0", "s">>

\* C21: the parameter of a Monitor decides how it ends.  Empty, it is set to
\* the long duration of an indefinite Monitor, which does not end before the
\* bound of the session; a duration literal, the Monitor ends when that
\* duration has passed, not before and not after; otherwise a number N > 0 of
\* lines, the Monitor ends with the character that ends the N-th line.  So 10
\* and 50 are counts of lines, and 2m30s is 150 seconds.
C21_MonitorParameter ==
  /\ monitorParameter(<<>>) = [ok |-> TRUE, monitorDuration |-> IndefiniteDuration, maxLines |-> 0]
  /\ monitorParameter(vTen) = [ok |-> TRUE, monitorDuration |-> 0, maxLines |-> 10]
  /\ monitorParameter(vFifty) = [ok |-> TRUE, monitorDuration |-> 0, maxLines |-> 50]
  /\ monitorParameter(vTwoMinutesThirty) = [ok |-> TRUE, monitorDuration |-> 150, maxLines |-> 0]
  /\ \A k \in MonitorEntries :
       LET e == trace[k]
           d == ParseDuration(e.Value)
           n == Atoi(e.Value)
       IN /\ e.Value = <<>> /\ e.err = NoErr => now >= ctxDeadline
          /\ e.Value # <<>> /\ d.ok /\ k = 1 =>
               /\ e.err = NoErr => now >= d.d
               /\ e.err = Pending => now <= d.d
          /\ e.Value # <<>> /\ ~ d.ok /\ n.ok /\ n.n > 0 =>
               /\ e.err \in {NoErr, Pending}
               /\ e.err = NoErr =>
                    /\ LineEnds(e.consumed) = n.n
                    /\ e.consumed[Len(e.consumed)] = "\n"
               /\ e.err = Pending => LineEnds(e.consumed) < n.n

\* A Monitor for 2 lines ended with the second line, and the Monitor for one
\* second after it ended too.
C21_Witness ==
  /\ Len(trace) = 2
  /\ trace[1].Type = "monitor" /\ trace[1].Value = <<"2">> /\ trace[1].err = NoErr
  /\ trace[1].consumed = <<"\n", "\n">>
  /\ trace[2].Type = "monitor" /\ trace[2].Value = vOneSecond /\ trace[2].err = NoErr


\* The parameters a Monitor is documented to take: none, a duration literal, or
\* a line count that is not negative.
ValidMonitorParameter(v) ==
  \/ v = <<>>
  \/ ParseDuration(v).ok
  \/ Atoi(v).ok /\ Atoi(v).n >= 0

\* C22: a Monitor whose parameter is neither empty, nor a duration literal, nor
\* a line count that is not negative has failed with the parse error as soon
\* as it is dispatched, and has taken no character from readChan.
C22_InvalidMonitorFailsAtOnce ==
  \A k \in MonitorEntries :
    ~ ValidMonitorParameter(trace[k].Value) =>
      /\ trace[k].err.kind = "invalid monitor parameter"
      /\ trace[k].consumed = <<>>

\* C23: a Monitor with a valid parameter returns no error.  A Monitor for a
\* duration that was dispatched when the session started has returned success
\* once its duration is over, whatever it received.
C23_MonitorNeverFails ==
  \A k \in MonitorEntries :
    LET e == trace[k]
    IN ValidMonitorParameter(e.Value) =>
         /\ e.err \in {NoErr, Pending}
         /\ k = 1 /\ ParseDuration(e.Value).ok /\ now > ParseDuration(e.Value).d =>
              e.err = NoErr

\* A Monitor for one second returned success on a device that sent nothing.
C23_Witness ==
  /\ trace # <<>>
  /\ trace[1].Type = "monitor" /\ trace[1].Value = vOneSecond
  /\ trace[1].err = NoErr /\ trace[1].consumed = <<>>
  /\ received = <<>>
  /\ now > 1


(***************************************************************************)
(* Sessions of Send commands.                                              *)
(***************************************************************************)
MaxContent == 3

\* The frame of a value: nothing, or a single quote, a double quote or a slash,
\* on either side.
FrameChars == { <<>>, <<"'">>, <<"\"">>, <<"/">> }

\* Command.Value of a Send: every content in every frame, matching or not; a
\* content is made of the backslash and the letters of the two escapes
SendValues ==
  { l \o c \o r : l \in FrameChars, r \in FrameChars,
                  c \in UNION { [1..n -> {"\\", "r", "n"}] : n \in 0..MaxContent } }

\* se.commands: one Send of any value, or a Send before or after another command
SendPrograms ==
  { << [Type |-> "send", Value |-> v] >> : v \in SendValues }
    \cup { << [Type |-> "send", Value |-> v], c >> :
             v \in {vQuotedA, vDoubleB}, c \in MonitorNeighbours \cup PlainCommands }
    \cup { << c, [Type |-> "send", Value |-> v] >> :
             v \in {vQuotedA, vDoubleB}, c \in MonitorNeighbours \cup PlainCommands }

SendInit ==
  /\ commands \in SendPrograms
  /\ scriptTimeout \in ScriptTimeouts
  /\ now = 0
  /\ mainPc = "start"
  /\ ctxDeadline = 0
  /\ done = <<>>
  /\ runResult = NoErr
  /\ readChan = <<>>
  /\ rdPc = "idle"
  /\ nRead = 0
  /\ written = <<>>
  /\ ex = IdleEx
  /\ wait = NoWait
  /\ trace = <<>>
  /\ port = "open"
  /\ received = <<>>
  /\ config = NoConfig
  /\ scriptNames = <<>>
  /\ scriptsToExecute = NoSelection
  /\ parseInput = <<>>
  /\ parseOutcome = NoOutcome
  /\ fnInput = <<>>
  /\ fnOutput = <<>>
  /\ dry = NoDryRun

SendSpec == SendInit /\ [][Next]_vars

\* The text s with each escape \r and \n, read from left to right, replaced by
\* the character it stands for.
RECURSIVE Unescaped(_)
Unescaped(s) ==
  IF s = <<>> THEN <<>>
  ELSE IF Len(s) >= 2 /\ s[1] = "\\" /\ s[2] = "r"
    THEN <<"\r">> \o Unescaped(SubSeq(s, 3, Len(s)))
  ELSE IF Len(s) >= 2 /\ s[1] = "\\" /\ s[2] = "n"
    THEN <<"\n">> \o Unescaped(SubSeq(s, 3, Len(s)))
  ELSE <<Head(s)>> \o Unescaped(Tail(s))

\* v is framed in q: it has two characters or more, the first and the last are q
Framed(v, q) == Len(v) >= 2 /\ v[1] = q /\ v[Len(v)] = q
Inner(v) == SubSeq(v, 2, Len(v) - 1)

\* What a Send of the value v is documented to write.
Formatted(v) ==
  IF Framed(v, "'") THEN Inner(v) \o <<"\r">>
  ELSE IF Framed(v, "\"") THEN Unescaped(Inner(v))
  ELSE v

\* The Send commands dispatched so far that returned no error, in order.
SentEntries == SelectSeq(trace, LAMBDA e : e.Type = "send" /\ e.err = NoErr)

\* C24: the port received one write for each Send that succeeded, in the order
\* of the Sends, and none for any other command; the write of a Send is the
\* inner text and a carriage return for a value in single quotes, the inner
\* text with \r and \n replaced by the control characters for a value in
\* double quotes, and the value as it stands for any other value.  A Send that
\* failed is one whose write returned an error.
C24_SendFormatting ==
  /\ Len(written) = Len(SentEntries)
  /\ \A j \in 1..Len(written) : written[j] = Formatted(SentEntries[j].Value)
  /\ \A k \in TraceIdx :
       trace[k].Type = "send" => trace[k].err \in {NoErr, MkErr("failed to send data", "", trace[k].Value)}

\* A Send of "\\n" wrote one backslash and a line feed.
C24_Witness ==
  /\ commands[1].Type = "send"
  /\ commands[1].Value = <<"\"", "\\", "\\", "n", "\"">>
  /\ written = << <<"\\", "\n">> >>
  /\ trace[1].err = NoErr


(***************************************************************************)
(* Sessions of Expect commands of any framing.                             *)
(***************************************************************************)
\* Command.Value of an Expect: every content in every frame, matching or not;
\* a content is made of a letter in both cases
PatternValues ==
  { l \o c \o r : l \in FrameChars, r \in FrameChars,
                  c \in UNION { [1..n -> {"b", "B"}] : n \in 0..MaxContent } }

\* se.commands: one Expect of any value or of a regular expression tied to an
\* end of the line, or an Expect with a frame that does not match before or
\* after another command
PatternPrograms ==
  { << [Type |-> "expect", Value |-> v] >> :
      v \in PatternValues \cup { <<"/", "^", "B", "/">>, <<"/", "B", "$", "/">>,
                                 <<"/", "^", "B", "$", "/">>, <<"/", "^", "B", "B", "/">> } }
    \cup { << [Type |-> "expect", Value |-> v], c >> :
             v \in {<<"b", "'">>}, c \in MonitorNeighbours \cup PlainCommands }
    \cup { << c, [Type |-> "expect", Value |-> v] >> :
             v \in {<<"b", "'">>}, c \in MonitorNeighbours \cup PlainCommands }

PatternInit ==
  /\ commands \in PatternPrograms
  /\ scriptTimeout \in ScriptTimeouts
  /\ now = 0
  /\ mainPc = "start"
  /\ ctxDeadline = 0
  /\ done = <<>>
  /\ runResult = NoErr
  /\ readChan = <<>>
  /\ rdPc = "idle"
  /\ nRead = 0
  /\ written = <<>>
  /\ ex = IdleEx
  /\ wait = NoWait
  /\ trace = <<>>
  /\ port = "open"
  /\ received = <<>>
  /\ config = NoConfig
  /\ scriptNames = <<>>
  /\ scriptsToExecute = NoSelection
  /\ parseInput = <<>>
  /\ parseOutcome = NoOutcome
  /\ fnInput = <<>>
  /\ fnOutput = <<>>
  /\ dry = NoDryRun

PatternSpec == PatternInit /\ [][Next]_vars

\* The value v has one of the three frames of a pattern.
PatternFramed(v) == Framed(v, "'") \/ Framed(v, "\"") \/ Framed(v, "/")

\* C25: an Expect whose value has fewer than two characters, or whose first
\* and last characters are not two single quotes, two double quotes or two
\* slashes, has failed with the pattern error as soon as it is dispatched: it
\* took no character from readChan, and no Expect with such a value is ever
\* waiting with a timer.
C25_UnframedPatternFails ==
  /\ \A k \in TraceIdx :
       trace[k].Type = "expect" /\ ~ PatternFramed(trace[k].Value) =>
         /\ trace[k].err = MkErr("invalid expect pattern", "", trace[k].Value)
         /\ trace[k].consumed = <<>>
  /\ wait.kind = "expect" => PatternFramed(wait.raw)

\* An Expect of the value 'B/ failed while two characters of the device were
\* waiting in readChan.
C25_Witness ==
  /\ trace # <<>>
  /\ trace[1].Type = "expect" /\ trace[1].Value = <<"'", "B", "/">>
  /\ trace[1].err.kind = "invalid expect pattern"
  /\ Len(readChan) = 2


(***************************************************************************)
(* The matcher applied to a pattern, a buffer and a current line.          *)
(***************************************************************************)
MaxText == 3

\* A buffer or a current line: characters among a letter in both cases, a
\* space and a line end.
Texts == UNION { [1..n -> {"b", "B", " ", "\n"}] : n \in 0..MaxText }

\* The patterns: a text of up to two characters without a line end, which a
\* line of a script cannot hold, in single quotes, double quotes or slashes.
MatchPatterns ==
  { q \o c \o q : q \in { <<"'">>, <<"\"">>, <<"/">> },
                  c \in { t \in Texts : Len(t) <= 2 /\ \A i \in 1..Len(t) : t[i] # "\n" } }

\* handleExpect, line 898: the arguments of checkMatch, the pattern as the
\* script holds it; a text as the buffer, as the current line, or as both
MatchInputs ==
  { [pattern |-> p, buffer |-> t, currentLine |-> t] : p \in MatchPatterns, t \in Texts }
    \cup { [pattern |-> p, buffer |-> t, currentLine |-> <<>>] : p \in MatchPatterns, t \in Texts }
    \cup { [pattern |-> p, buffer |-> <<>>, currentLine |-> t] : p \in MatchPatterns, t \in Texts }

NoMatchOutput == [ok |-> FALSE, matched |-> FALSE]

\* handleExpect, lines 874 and 898: the pattern is compiled and the matcher is
\* applied to the buffer and the current line
CheckMatch ==
  /\ mainPc = "match"
  /\ LET ep == parseExpectPattern(fnInput.pattern)
     IN fnOutput' = [ok |-> ep.ok,
                     matched |-> ep.ok /\ checkMatch(ep, fnInput.buffer, fnInput.currentLine)]
  /\ mainPc' = "matched"
  /\ UNCHANGED <<config, scriptNames, scriptsToExecute, parseInput, parseOutcome, fnInput, dry,
                 port, received, commands, scriptTimeout, now, ctxDeadline, done, runResult,
                 readChan, rdPc, nRead, written, ex, wait, trace>>

MatchInit ==
  /\ fnInput \in MatchInputs
  /\ fnOutput = NoMatchOutput
  /\ mainPc = "match"
  /\ parseInput = <<>>
  /\ parseOutcome = NoOutcome
  /\ dry = NoDryRun
  /\ config = NoConfig
  /\ scriptNames = <<>>
  /\ scriptsToExecute = NoSelection
  /\ commands = <<>>
  /\ scriptTimeout = 0
  /\ now = 0
  /\ ctxDeadline = 0
  /\ done = <<>>
  /\ runResult = NoErr
  /\ readChan = <<>>
  /\ rdPc = "idle"
  /\ nRead = 0
  /\ written = <<>>
  /\ ex = IdleEx
  /\ wait = NoWait
  /\ trace = <<>>
  /\ port = "unopened"
  /\ received = <<>>

MatchSpec == MatchInit /\ [][CheckMatch]_vars

\* The characters c and d are the same letter, in whatever case.
SameLetter(c, d) == LowerChar(c) = LowerChar(d)

\* The text occurs in s at offset i, letters compared without their case.
OccursAt(s, text, i) ==
  /\ i + Len(text) <= Len(s)
  /\ \A j \in 1..Len(text) : SameLetter(s[i + j], text[j])

\* s without the white space at its two ends.
Trimmed(s) ==
  IF \A i \in 1..Len(s) : IsSpace(s[i]) THEN <<>>
  ELSE LET first == CHOOSE i \in 1..Len(s) : ~ IsSpace(s[i]) /\ \A j \in 1..(i - 1) : IsSpace(s[j])
           last == CHOOSE i \in 1..Len(s) : ~ IsSpace(s[i]) /\ \A j \in (i + 1)..Len(s) : IsSpace(s[j])
       IN SubSeq(s, first, last)

\* The matcher of the pattern raw, applied to a buffer and a current line.
Matches(raw, buffer, currentLine) == checkMatch(parseExpectPattern(raw), buffer, currentLine)

\* C26: for a pattern in single quotes the matcher is true exactly when the
\* text between the quotes occurs in the buffer, at any offset and whatever
\* line ends the buffer holds, letters compared without their case; the
\* current line plays no part.
C26_SingleQuotedAnywhere ==
  mainPc = "matched" /\ Framed(fnInput.pattern, "'") =>
    /\ fnOutput.ok
    /\ fnOutput.matched <=>
         \E i \in 0..Len(fnInput.buffer) : OccursAt(fnInput.buffer, Inner(fnInput.pattern), i)

\* The pattern 'Bb' matched the buffer "\nbB", whose current line is empty.
C26_Witness ==
  /\ mainPc = "matched"
  /\ fnInput = [pattern |-> <<"'", "B", "b", "'">>, buffer |-> <<"\n", "b", "B">>,
                currentLine |-> <<>>]
  /\ fnOutput.matched

\* ABC in double quotes, and the current lines it is tried on
vABC == <<"\"", "A", "B", "C", "\"">>
lineABCrest == <<"A", "B", "C", " ", "r", "e", "s", "t">>
lineIndentedABC == <<" ", " ", "A", "B", "C">>
linexABC == <<"x", "A", "B", "C">>
lineabc == <<"a", "b", "c">>

\* C27: for a pattern in double quotes the matcher is true exactly when the
\* text between the quotes, as it stands, begins the current line taken
\* without the white space at its two ends, letters compared with their case;
\* the buffer plays no part.  "ABC" matches the current lines "ABC rest" and
\* "  ABC", and neither "xABC" nor "abc".
C27_DoubleQuotedLineStart ==
  /\ Matches(vABC, <<>>, lineABCrest)
  /\ Matches(vABC, <<>>, lineIndentedABC)
  /\ ~ Matches(vABC, linexABC, linexABC)
  /\ ~ Matches(vABC, lineabc, lineabc)
  /\ mainPc = "matched" /\ Framed(fnInput.pattern, "\"") =>
       /\ fnOutput.ok
       /\ fnOutput.matched <=>
            LET text == Inner(fnInput.pattern)
                line == Trimmed(fnInput.currentLine)
            IN /\ Len(text) <= Len(line)
               /\ \A j \in 1..Len(text) : line[j] = text[j]

\* The pattern "B" matched the current line " B " with nothing in the buffer.
C27_Witness ==
  /\ mainPc = "matched"
  /\ fnInput = [pattern |-> vDoubleB, buffer |-> <<>>, currentLine |-> <<" ", "B", " ">>]
  /\ fnOutput.matched


(***************************************************************************)
(* The dry run: executeDryRun replays the commands against the lines of a  *)
(* file of captured input.  It runs in main's goroutine, command after     *)
(* command; trace holds one entry for each command it processed, with the  *)
(* value of lineIndex before (from) and after (to).                        *)
(***************************************************************************)
\* executeDryRun, lines 473 and 489: maxShow
maxShow == 10

\* A plausible slip: the echo of a dry run shows the escapes as they are
\* written in the script.
formatSendValueKeepsEscapes(value) ==
  IF Len(value) >= 2
    THEN LET first == value[1]
             last == value[Len(value)]
             content == SubSeq(value, 2, Len(value) - 1)
         IN IF first = "'" /\ last = "'" THEN content \o <<"\r">>
            ELSE IF first = "\"" /\ last = "\"" THEN content
            ELSE value
    ELSE value

\* formatSendValue
formatSendValue(value) ==
  IF Len(value) >= 2
    THEN LET first == value[1]
             last == value[Len(value)]
             content == SubSeq(value, 2, Len(value) - 1)
         IN IF first = "'" /\ last = "'" THEN content \o <<"\r">>
            ELSE IF first = "\"" /\ last = "\""
              THEN LET toSend == ReplaceAll2(content, <<"\\", "r">>, "\r")
                   IN ReplaceAll2(toSend, <<"\\", "n">>, "\n")
            ELSE value
    ELSE value

\* checkDryRunMatch
checkDryRunMatch(ep, line, linesSinceStart) ==
  IF ep.MatchType = MatchCaseInsensitive
    THEN Contains(ToLower(line), ToLower(ep.Pattern))
  ELSE IF ep.MatchType = MatchCaseSensitive
    THEN HasPrefix(TrimSpace(line), ep.Pattern)
  ELSE IF ep.MatchType = MatchRegex
    THEN RegexMatchString(ep.Pattern, line)
  ELSE FALSE

\* A plausible slip: lineIndex is left on the line that matched.
RECURSIVE searchLinesStayOnMatch(_, _, _, _)
searchLinesStayOnMatch(ep, lines, lineIndex, startIndex) ==
  IF lineIndex >= Len(lines) THEN [found |-> FALSE, lineIndex |-> lineIndex]
  ELSE IF checkDryRunMatch(ep, lines[lineIndex + 1], lineIndex - startIndex)
    THEN [found |-> TRUE, lineIndex |-> lineIndex]
  ELSE searchLinesStayOnMatch(ep, lines, lineIndex + 1, startIndex)

\* executeDryRun, lines 396-412 and 449-463: the search through the remaining
\* lines; lineIndex counts from 0 as in the source, lines[lineIndex + 1] is
\* the line it stands on
RECURSIVE searchLines(_, _, _, _)
searchLines(ep, lines, lineIndex, startIndex) ==
  IF lineIndex >= Len(lines) THEN [found |-> FALSE, lineIndex |-> lineIndex]
  ELSE IF checkDryRunMatch(ep, lines[lineIndex + 1], lineIndex - startIndex)
    THEN [found |-> TRUE, lineIndex |-> lineIndex + 1]
  ELSE searchLines(ep, lines, lineIndex + 1, startIndex)

\* A plausible slip: a Monitor of a dry run shows all the lines that are left.
showLinesToTheEnd(lines, lineIndex) == Len(lines)

\* executeDryRun, lines 473-481 and 489-497: lineIndex after a Monitor has
\* shown its lines
showLines(lines, lineIndex) ==
  LET show == IF lineIndex + maxShow > Len(lines) THEN Len(lines) - lineIndex ELSE maxShow
  IN lineIndex + show

\* History: the entry of a command the dry run processed.
DryEntry(i, ctx, idx, cmd, err, from, to) ==
  [ip |-> i, ctx |-> ctx, idx |-> idx, Type |-> cmd.Type, Value |-> cmd.Value,
   err |-> err, from |-> from, to |-> to]

\* A plausible slip: an Expect of the main script that finds no line ends the
\* dry run, as an Expect of the top level does.
RECURSIVE subCommandsHaltOnNotFound(_, _, _, _)
subCommandsHaltOnNotFound(cmds, j, i, s) ==
  IF j > Len(cmds) THEN s
  ELSE LET subCmd == cmds[j]
       IN IF subCmd.Type = "send"
            THEN subCommandsHaltOnNotFound(cmds, j + 1, i,
                   [s EXCEPT !.tx = Append(s.tx, formatSendValue(subCmd.Value)),
                             !.entries = Append(s.entries,
                                DryEntry(i, "main", j, subCmd, NoErr, s.lineIndex, s.lineIndex))])
          ELSE IF subCmd.Type = "expect"
            THEN LET ep == parseExpectPattern(subCmd.Value)
                     r == searchLines(ep, s.lines, s.lineIndex, s.lineIndex)
                 IN IF ~ ep.ok
                      THEN [s EXCEPT !.err = MkErr("invalid expect pattern", "", subCmd.Value),
                                     !.entries = Append(s.entries,
                                        DryEntry(i, "main", j, subCmd,
                                                 MkErr("invalid expect pattern", "", subCmd.Value),
                                                 s.lineIndex, s.lineIndex))]
                    ELSE IF ~ r.found
                      THEN [s EXCEPT !.err = MkErr("pattern not found in remaining input", "", subCmd.Value),
                                     !.lineIndex = r.lineIndex,
                                     !.entries = Append(s.entries,
                                        DryEntry(i, "main", j, subCmd,
                                                 MkErr("pattern not found in remaining input", "", subCmd.Value),
                                                 s.lineIndex, r.lineIndex))]
                    ELSE subCommandsHaltOnNotFound(cmds, j + 1, i,
                           [s EXCEPT !.lineIndex = r.lineIndex,
                                     !.entries = Append(s.entries,
                                        DryEntry(i, "main", j, subCmd, NoErr, s.lineIndex, r.lineIndex))])
          ELSE subCommandsHaltOnNotFound(cmds, j + 1, i,
                 [s EXCEPT !.lineIndex = showLines(s.lines, s.lineIndex),
                           !.entries = Append(s.entries,
                              DryEntry(i, "main", j, subCmd, NoErr, s.lineIndex,
                                       showLines(s.lines, s.lineIndex)))])

\* executeDryRun, lines 436-483: the loop over the commands of the main script
\* of try command i, from sub-command j on; s holds lines, lineIndex, what was
\* printed as TX, the history, and the error the dry run returns, if any.  An
\* Expect that finds no line is logged ("PATTERN NOT FOUND") and the loop goes on.
RECURSIVE subCommands(_, _, _, _)
subCommands(cmds, j, i, s) ==
  IF j > Len(cmds) THEN s
  ELSE LET subCmd == cmds[j]
       IN IF subCmd.Type = "send"
            THEN subCommands(cmds, j + 1, i,
                   [s EXCEPT !.tx = Append(s.tx, formatSendValue(subCmd.Value)),
                             !.entries = Append(s.entries,
                                DryEntry(i, "main", j, subCmd, NoErr, s.lineIndex, s.lineIndex))])
          ELSE IF subCmd.Type = "expect"
            THEN LET ep == parseExpectPattern(subCmd.Value)
                     r == searchLines(ep, s.lines, s.lineIndex, s.lineIndex)
                 IN IF ~ ep.ok
                      THEN [s EXCEPT !.err = MkErr("invalid expect pattern", "", subCmd.Value),
                                     !.entries = Append(s.entries,
                                        DryEntry(i, "main", j, subCmd,
                                                 MkErr("invalid expect pattern", "", subCmd.Value),
                                                 s.lineIndex, s.lineIndex))]
                    ELSE subCommands(cmds, j + 1, i,
                           [s EXCEPT !.lineIndex = r.lineIndex,
                                     !.entries = Append(s.entries,
                                        DryEntry(i, "main", j, subCmd,
                                                 IF r.found THEN NoErr
                                                 ELSE MkErr("PATTERN NOT FOUND", "", subCmd.Value),
                                                 s.lineIndex, r.lineIndex))])
          ELSE subCommands(cmds, j + 1, i,
                 [s EXCEPT !.lineIndex = showLines(s.lines, s.lineIndex),
                           !.entries = Append(s.entries,
                              DryEntry(i, "main", j, subCmd, NoErr, s.lineIndex,
                                       showLines(s.lines, s.lineIndex)))])

\* The command the loop of executeDryRun stands on.
DryCmd == commands[dry.i]

\* executeDryRun, lines 378 and 499-502: command i returned err; an error is
\* returned to main, otherwise the loop goes on
DryAfter(err) ==
  /\ runResult' = err
  /\ mainPc' = IF err # NoErr THEN "dryreturned" ELSE "dry"

\* What a dry run leaves alone: the port, the goroutines and channels of a
\* session, and the clock.
session == <<port, received, scriptTimeout, now, ctxDeadline, done, readChan, rdPc, nRead,
             written, ex, wait>>

\* What of setup a dry run leaves alone.
resolved == <<config, scriptNames, scriptsToExecute, parseInput, parseOutcome, fnInput, fnOutput>>

\* main, lines 156-159, and executeDryRun, lines 366-376: the input file is
\* read and split into lines; a file that cannot be read ends the dry run
DryStart ==
  /\ mainPc = "dryrun"
  /\ \E readable \in BOOLEAN :
       IF readable
         THEN /\ dry' = [dry EXCEPT !.lines = SplitLines(dry.input), !.lineIndex = 0, !.i = 1]
              /\ mainPc' = "dry"
              /\ runResult' = runResult
         ELSE /\ dry' = dry
              /\ mainPc' = "dryreturned"
              /\ runResult' = MkErr("failed to read input file", "", <<>>)
  /\ UNCHANGED <<resolved, session, commands, trace>>

\* A plausible slip: the dry run sends as a session does.
DrySendWrites ==
  /\ mainPc = "dry" /\ dry.i <= Len(commands) /\ DryCmd.Type = "send"
  /\ written' = Append(written, formatSendValue(DryCmd.Value))
  /\ dry' = [dry EXCEPT !.i = dry.i + 1]
  /\ trace' = Append(trace, DryEntry(dry.i, "top", dry.i, DryCmd, NoErr, dry.lineIndex, dry.lineIndex))
  /\ DryAfter(NoErr)
  /\ UNCHANGED <<resolved, port, received, scriptTimeout, now, ctxDeadline, done, readChan, rdPc,
                 nRead, ex, wait, commands>>

\* executeDryRun, lines 382-385: a Send prints the formatted value
DrySend ==
  /\ mainPc = "dry" /\ dry.i <= Len(commands) /\ DryCmd.Type = "send"
  /\ dry' = [dry EXCEPT !.tx = Append(dry.tx, formatSendValue(DryCmd.Value)), !.i = dry.i + 1]
  /\ trace' = Append(trace, DryEntry(dry.i, "top", dry.i, DryCmd, NoErr, dry.lineIndex, dry.lineIndex))
  /\ DryAfter(NoErr)
  /\ UNCHANGED <<resolved, session, commands>>

\* A plausible slip: the search of a dry run is cut short as a wait on the
\* port is, by a timer that may or may not have fired.
DryExpectMayTimeOut ==
  /\ mainPc = "dry" /\ dry.i <= Len(commands) /\ DryCmd.Type = "expect"
  /\ \E fired \in BOOLEAN :
       LET expectPattern == parseExpectPattern(DryCmd.Value)
           r == searchLines(expectPattern, dry.lines, dry.lineIndex, dry.lineIndex)
           err == IF ~ expectPattern.ok THEN MkErr("invalid expect pattern", "", DryCmd.Value)
                  ELSE IF fired THEN MkErr("receive timeout", "", DryCmd.Value)
                  ELSE IF ~ r.found
                    THEN MkErr("pattern not found in remaining input", "", DryCmd.Value)
                  ELSE NoErr
           to == IF expectPattern.ok /\ ~ fired THEN r.lineIndex ELSE dry.lineIndex
       IN /\ dry' = [dry EXCEPT !.lineIndex = to, !.i = dry.i + 1]
          /\ trace' = Append(trace, DryEntry(dry.i, "top", dry.i, DryCmd, err, dry.lineIndex, to))
          /\ DryAfter(err)
  /\ UNCHANGED <<resolved, session, commands>>

\* executeDryRun, lines 387-416: an Expect searches the remaining lines
DryExpect ==
  /\ mainPc = "dry" /\ dry.i <= Len(commands) /\ DryCmd.Type = "expect"
  /\ LET expectPattern == parseExpectPattern(DryCmd.Value)
         r == searchLines(expectPattern, dry.lines, dry.lineIndex, dry.lineIndex)
         err == IF ~ expectPattern.ok THEN MkErr("invalid expect pattern", "", DryCmd.Value)
                ELSE IF ~ r.found THEN MkErr("pattern not found in remaining input", "", DryCmd.Value)
                ELSE NoErr
         to == IF expectPattern.ok THEN r.lineIndex ELSE dry.lineIndex
     IN /\ dry' = [dry EXCEPT !.lineIndex = to, !.i = dry.i + 1]
        /\ trace' = Append(trace, DryEntry(dry.i, "top", dry.i, DryCmd, err, dry.lineIndex, to))
        /\ DryAfter(err)
  /\ UNCHANGED <<resolved, session, commands>>

\* executeDryRun, lines 418-483: a try command replays its main script
DryTry ==
  /\ mainPc = "dry" /\ dry.i <= Len(commands) /\ DryCmd.Type = "try"
  /\ LET tryBlock == DryCmd.TryBlock
         scriptMap == DryCmd.ScriptMap
         entry(err) == DryEntry(dry.i, "top", dry.i, DryCmd, err, dry.lineIndex, dry.lineIndex)
     IN IF tryBlock.Script \notin DOMAIN scriptMap
          THEN /\ dry' = [dry EXCEPT !.i = dry.i + 1]
               /\ trace' = Append(trace, entry(MkErr("script not found", tryBlock.Script, <<>>)))
               /\ DryAfter(MkErr("script not found", tryBlock.Script, <<>>))
        ELSE LET p == parsedScripts[scriptMap[tryBlock.Script].Content]
             IN IF ~ p.ok
                  THEN /\ dry' = [dry EXCEPT !.i = dry.i + 1]
                       /\ trace' = Append(trace,
                                     entry(MkErr("failed to parse script in try block", "", p.content)))
                       /\ DryAfter(MkErr("failed to parse script in try block", "", p.content))
                  ELSE LET s == subCommands(p.commands, 1, dry.i,
                                  [lines |-> dry.lines, lineIndex |-> dry.lineIndex, tx |-> dry.tx,
                                   entries |-> <<>>, err |-> NoErr])
                       IN /\ dry' = [dry EXCEPT !.lineIndex = s.lineIndex, !.tx = s.tx,
                                                !.i = dry.i + 1]
                          /\ trace' = Append(trace,
                                        [entry(s.err) EXCEPT !.to = s.lineIndex]) \o s.entries
                          /\ DryAfter(s.err)
  /\ UNCHANGED <<resolved, session, commands>>

\* executeDryRun, lines 485-497: a Monitor shows the next lines
DryMonitor ==
  /\ mainPc = "dry" /\ dry.i <= Len(commands) /\ DryCmd.Type = "monitor"
  /\ dry' = [dry EXCEPT !.lineIndex = showLines(dry.lines, dry.lineIndex), !.i = dry.i + 1]
  /\ trace' = Append(trace, DryEntry(dry.i, "top", dry.i, DryCmd, NoErr, dry.lineIndex,
                                     showLines(dry.lines, dry.lineIndex)))
  /\ DryAfter(NoErr)
  /\ UNCHANGED <<resolved, session, commands>>

\* executeDryRun, lines 499-502: the loop is over
DryDone ==
  /\ mainPc = "dry" /\ dry.i > Len(commands)
  /\ mainPc' = "dryreturned"
  /\ UNCHANGED <<setup, session, commands, runResult, trace>>

\* main, lines 159-161 and 177-178: main returns, or Fatalf exits; no Close
\* was deferred in this branch
DryExit ==
  /\ mainPc = "dryreturned"
  /\ mainPc' = "exited"
  /\ UNCHANGED <<setup, session, commands, runResult, trace>>

DryNext ==
  \/ DryStart
  \/ DrySend
  \/ DryExpect
  \/ DryTry
  \/ DryMonitor
  \/ DryDone
  \/ DryExit

\* The lines of the input file: a line of each case of the letter, one with
\* white space before the letter, and one without it.
InputLines == { <<"B">>, <<"b">>, <<" ", "B">>, <<"x">> }

\* The input files: up to MaxLines lines, the last one not ended, and a file
\* of more lines than a Monitor shows, the last of which holds the letter
InputFiles ==
  { JoinLines(ls) : ls \in UNION { [1..n -> InputLines] : n \in 0..MaxLines } }
    \cup { JoinLines([n \in 1..(maxShow + 1) |-> <<"x">>] \o << <<"B">> >>) }

\* The commands of a dry run: the commands of a session, an Expect for each
\* kind of pattern, one whose pattern has no frame, and try blocks whose main
\* script is there, does not parse, or is missing.
DryCommands ==
  PlainCommands
    \cup { [Type |-> "expect", Value |-> v] : v \in {vDoubleB, <<"/", "B", "/">>, <<"b", "'">>} }
    \cup { parseTryBlock(ConfigScripts,
                         [Name |-> "t1", Script |-> s, Except |-> "recover", Retry |-> TRUE]) :
             s \in {"main", "recover", "broken", "missing"} }

\* se.commands: one command or two
DryPrograms == [1..1 -> DryCommands] \cup [1..2 -> DryCommands]

\* main at line 156 with the flag -dry-run set: the commands are built, the
\* port is not opened
DryInit ==
  /\ commands \in DryPrograms
  /\ dry \in { [NoDryRun EXCEPT !.input = f] : f \in InputFiles }
  /\ mainPc = "dryrun"
  /\ scriptTimeout \in ScriptTimeouts
  /\ now = 0
  /\ ctxDeadline = 0
  /\ done = <<>>
  /\ runResult = NoErr
  /\ readChan = <<>>
  /\ rdPc = "idle"
  /\ nRead = 0
  /\ written = <<>>
  /\ ex = IdleEx
  /\ wait = NoWait
  /\ trace = <<>>
  /\ port = "unopened"
  /\ received = <<>>
  /\ config = NoConfig
  /\ scriptNames = <<>>
  /\ scriptsToExecute = NoSelection
  /\ parseInput = <<>>
  /\ parseOutcome = NoOutcome
  /\ fnInput = <<>>
  /\ fnOutput = <<>>

DrySpec == DryInit /\ [][DryNext]_vars


\* The Send commands among the entries of the history, in order.
SendEntries == SelectSeq(trace, LAMBDA e : e.Type = "send")

\* C28: a dry run opens no port, writes nothing to one and reads nothing from
\* one: the port stays unopened, no reader is started, no byte is written or
\* received.  Each Send it processes prints the formatted value, and that is
\* all it does.
C28_DryRunLeavesPortAlone ==
  /\ port = "unopened"
  /\ written = <<>>
  /\ rdPc = "idle" /\ nRead = 0 /\ received = <<>> /\ readChan = <<>>
  /\ Len(dry.tx) = Len(SendEntries)
  /\ \A j \in 1..Len(dry.tx) : dry.tx[j] = Formatted(SendEntries[j].Value)

\* A dry run of a Send and a try block came to its end: two values were
\* printed, and no port was opened.
C28_Witness ==
  /\ mainPc = "exited" /\ runResult = NoErr
  /\ Len(commands) = 2
  /\ commands[1].Type = "send" /\ commands[2].Type = "try"
  /\ dry.tx = << <<"a", "\r">>, <<"a", "\r">> >>
  /\ port = "unopened" /\ written = <<>>

\* The line satisfies the pattern raw.
LineSatisfies(raw, line) ==
  IF Framed(raw, "'") THEN \E i \in 0..Len(line) : OccursAt(line, Inner(raw), i)
  ELSE IF Framed(raw, "\"")
    THEN LET text == Inner(raw)
             t == Trimmed(line)
         IN Len(text) <= Len(t) /\ \A j \in 1..Len(text) : t[j] = text[j]
  ELSE RegexMatchString(Inner(raw), line)

\* The Expect commands of the top level the dry run processed, those with a
\* pattern that compiles.
DryExpects ==
  {k \in TraceIdx : /\ trace[k].Type = "expect" /\ trace[k].ctx = "top"
                    /\ trace[k].err.kind # "invalid expect pattern"}

\* C29: an Expect of the top level goes through the lines from lineIndex on.
\* When it succeeds, the line it stopped on satisfies the pattern, no line
\* before it from the start of the search does, and lineIndex stands after
\* that line, so that no later Expect stops on the same line.  When no
\* remaining line satisfies the pattern, lineIndex is at the end of the lines
\* and the dry run has failed with 'pattern not found in remaining input'.
C29_DryExpectFirstMatch ==
  \A k \in DryExpects :
    LET e == trace[k]
        found == \E n \in (e.from + 1)..Len(dry.lines) : LineSatisfies(e.Value, dry.lines[n])
    IN /\ found =>
            /\ e.err = NoErr
            /\ e.to > e.from
            /\ LineSatisfies(e.Value, dry.lines[e.to])
            /\ \A n \in (e.from + 1)..(e.to - 1) : ~ LineSatisfies(e.Value, dry.lines[n])
            /\ \A k2 \in (k + 1)..Len(trace) : trace[k2].from >= e.to
       /\ ~ found =>
            /\ e.err = MkErr("pattern not found in remaining input", "", e.Value)
            /\ e.to = Len(dry.lines)
            /\ k = Len(trace)
            /\ runResult = e.err
            /\ mainPc \in {"dryreturned", "exited"}

\* Two Expects succeeded one after the other: the first passed over a line and
\* stopped on the second line, the second stopped on the third.
C29_Witness ==
  /\ Len(trace) = 2
  /\ trace[1].Type = "expect" /\ trace[1].err = NoErr /\ trace[1].from = 0 /\ trace[1].to = 2
  /\ trace[2].Type = "expect" /\ trace[2].err = NoErr /\ trace[2].from = 2 /\ trace[2].to = 3

\* The try commands the dry run processed whose main script was found and
\* parsed.
DryTries ==
  {k \in TraceIdx : /\ trace[k].Type = "try"
                    /\ trace[k].err.kind \notin {"script not found",
                                                 "failed to parse script in try block"}}

\* The commands of the main script of the try command of entry k.
DryMainCommands(k) ==
  LET cmd == commands[trace[k].ip]
  IN parsedScripts[cmd.ScriptMap[cmd.TryBlock.Script].Content].commands

\* The entries of the commands the try command of entry k replayed.
DrySubEntries(k) == {m \in TraceIdx : trace[m].ctx # "top" /\ trace[m].ip = trace[k].ip}

\* C30: a try command of a dry run replays the commands of its main script,
\* each once and in order, and nothing of its except script.  An Expect among
\* them that finds no line is recorded as not found and the replay goes on:
\* unless a pattern does not compile, every command of the main script is
\* processed, the try command returns no error, and the dry run goes on with
\* the command after it.
C30_DryTryMainOnly ==
  \A k \in DryTries :
    LET main == DryMainCommands(k)
        subs == DrySubEntries(k)
        e == trace[k]
    IN /\ \A m \in subs :
            /\ trace[m].ctx = "main"
            /\ m = k + trace[m].idx
            /\ trace[m].idx \in 1..Len(main)
            /\ trace[m].Type = main[trace[m].idx].Type
            /\ trace[m].Value = main[trace[m].idx].Value
            /\ trace[m].err.kind \in {"nil", "PATTERN NOT FOUND", "invalid expect pattern"}
       /\ e.err.kind \in {"nil", "invalid expect pattern"}
       /\ e.err = NoErr =>
            /\ Cardinality(subs) = Len(main)
            /\ e.ip < Len(commands) =>
                 \/ mainPc = "dry" /\ dry.i = e.ip + 1
                 \/ \E m \in TraceIdx : trace[m].ctx = "top" /\ trace[m].ip = e.ip + 1

\* A try block whose Expect found no line in the input: its Send was printed
\* all the same, and so was the Send after the try block; the dry run ended
\* without an error.
C30_Witness ==
  /\ mainPc = "exited" /\ runResult = NoErr
  /\ Len(trace) = 4
  /\ trace[1].Type = "try"
  /\ trace[2].Type = "expect" /\ trace[2].err.kind = "PATTERN NOT FOUND"
  /\ trace[3].Type = "send" /\ trace[3].ctx = "main"
  /\ trace[4].Type = "send" /\ trace[4].ctx = "top"
  /\ Len(dry.tx) = 2


\* The line on which an Expect for raw stops when it searches the lines L from
\* the cursor p on, or 0 when no line from there on satisfies raw.
StopLine(raw, L, p) ==
  LET S == {n \in (p + 1)..Len(L) : LineSatisfies(raw, L[n])}
  IN IF S = {} THEN 0 ELSE CHOOSE n \in S : \A m \in S : n <= m

\* What a command of a dry run came to: the kind of its error, the cursor it
\* started from and the cursor it left.
Outcome(kind, from, to) == [kind |-> kind, from |-> from, to |-> to]

\* The outcomes of the commands cmds from command j on, over the lines L from
\* the cursor p on, as a function of these alone: of the top level (top), where
\* any error ends the dry run, or of the main script of a try command, where
\* an Expect that finds no line does not.
RECURSIVE Outcomes(_, _, _, _, _)
Outcomes(cmds, j, L, p, top) ==
  IF j > Len(cmds) THEN <<>>
  ELSE LET c == cmds[j]
       IN IF c.Type = "send"
            THEN <<Outcome("nil", p, p)>> \o Outcomes(cmds, j + 1, L, p, top)
          ELSE IF c.Type = "monitor"
            THEN LET q == IF Len(L) - p > maxShow THEN p + maxShow ELSE Len(L)
                 IN <<Outcome("nil", p, q)>> \o Outcomes(cmds, j + 1, L, q, top)
          ELSE IF c.Type = "expect"
            THEN IF ~ parseExpectPattern(c.Value).ok
                   THEN <<Outcome("invalid expect pattern", p, p)>>
                 ELSE LET n == StopLine(c.Value, L, p)
                      IN IF n # 0
                           THEN <<Outcome("nil", p, n)>> \o Outcomes(cmds, j + 1, L, n, top)
                         ELSE IF top
                           THEN <<Outcome("pattern not found in remaining input", p, Len(L))>>
                         ELSE <<Outcome("PATTERN NOT FOUND", p, Len(L))>>
                                \o Outcomes(cmds, j + 1, L, Len(L), top)
          ELSE IF c.TryBlock.Script \notin DOMAIN c.ScriptMap
            THEN <<Outcome("script not found", p, p)>>
          ELSE LET main == parsedScripts[c.ScriptMap[c.TryBlock.Script].Content]
               IN IF ~ main.ok
                    THEN <<Outcome("failed to parse script in try block", p, p)>>
                  ELSE LET sub == Outcomes(main.commands, 1, L, p, FALSE)
                           q == IF sub = <<>> THEN p ELSE sub[Len(sub)].to
                           kind == IF sub # <<>> /\ sub[Len(sub)].kind = "invalid expect pattern"
                                     THEN "invalid expect pattern" ELSE "nil"
                       IN <<Outcome(kind, p, q)>> \o sub
                            \o (IF kind = "nil" THEN Outcomes(cmds, j + 1, L, q, top) ELSE <<>>)

\* C31: a dry run is deterministic.  Once the input file was read, the history
\* of the dry run (for each command whether it matched, found no line or
\* failed, and the cursor before and after it), the cursor and the final
\* result are those that the command list and the text of the input file
\* determine: they depend on nothing else, neither on the script timeout nor
\* on the clock, so two dry runs of the same commands over the same input
\* agree on all of them.
C31_DryRunDeterministic ==
  (mainPc \in {"dry", "dryreturned", "exited"} /\ runResult.kind # "failed to read input file")
    => LET O == Outcomes(commands, 1, SplitLines(dry.input), 0, TRUE)
           Bad == {k \in 1..Len(O) : O[k].kind \notin {"nil", "PATTERN NOT FOUND"}}
       IN /\ Len(trace) <= Len(O)
          /\ \A k \in 1..Len(trace) :
               Outcome(trace[k].err.kind, trace[k].from, trace[k].to) = O[k]
          /\ dry.lineIndex = IF trace = <<>> THEN 0 ELSE trace[Len(trace)].to
          /\ now = 0
          /\ mainPc = "dry" => runResult = NoErr
          /\ mainPc \in {"dryreturned", "exited"}
               => /\ Len(trace) = Len(O)
                  /\ runResult.kind = IF Bad = {} THEN "nil" ELSE O[CHOOSE k \in Bad : TRUE].kind

\* C31, witness: a dry run whose script timeout is zero went through a Monitor
\* and an Expect: the Monitor showed every line, the Expect found none left, and
\* the dry run ended with that failure and not with a timeout.
C31_Witness ==
  /\ mainPc = "exited" /\ scriptTimeout = 0
  /\ Len(dry.lines) = 2
  /\ Len(trace) = 2
  /\ trace[1].Type = "monitor" /\ trace[1].to = 2
  /\ trace[2].Type = "expect" /\ trace[2].from = 2
  /\ runResult.kind = "pattern not found in remaining input"


\* C32: the buffer in which an Expect looks for its text holds everything the
\* commands of the session have consumed since the session started: while an
\* Expect waits its buffer is all of that, and a single-quoted Expect that
\* has consumed a character succeeds as soon as its text occurs in all of it,
\* be it in what an earlier command consumed.
C32_BufferSinceSessionStart ==
  /\ ExpectWaiting => wait.buffer = ConsumedUpTo(Len(trace))
  /\ \A k \in TraceIdx :
       (/\ trace[k].Type = "expect"
        /\ parseExpectPattern(trace[k].Value).ok
        /\ trace[k].Value[1] = "'"
        /\ trace[k].consumed # <<>>
        /\ Satisfies(trace[k].Value, ConsumedUpTo(k)))
         => trace[k].err = NoErr


\* The Expect commands dispatched so far whose pattern is a regular expression
\* that compiles.
RegexEntries ==
  {k \in TraceIdx : /\ trace[k].Type = "expect"
                    /\ Framed(trace[k].Value, "/")
                    /\ RegexCompiles(Inner(trace[k].Value))}

\* C33: a pattern /re/ is run on the current line only, that is on what this
\* Expect has consumed since the last newline it consumed, and the current
\* line is emptied by a newline before the pattern is looked for.  An Expect
\* with such a pattern has succeeded exactly when the current line, after a
\* character it consumed, matched re, whatever the lines before hold; and the
\* current line of a waiting Expect is what its buffer holds after the last
\* newline.
C33_RegexOnCurrentLine ==
  /\ \A k \in RegexEntries :
       LET c == trace[k].consumed
           re == Inner(trace[k].Value)
       IN /\ \A n \in 1..(Len(c) - 1) : ~ RegexMatchString(re, LastLine(SubSeq(c, 1, n)))
          /\ trace[k].err = NoErr => c # <<>> /\ RegexMatchString(re, LastLine(c))
          /\ (trace[k].err # NoErr /\ c # <<>>) => ~ RegexMatchString(re, LastLine(c))
  /\ wait.kind = "expect" =>
       /\ wait.currentLine = LastLine(wait.buffer)
       /\ \A n \in 1..Len(wait.currentLine) : wait.currentLine[n] # "\n"

\* C33, witness: an Expect for /^B/ consumed a newline and then B, and
\* succeeded on the line that B began, though all it had read does not begin
\* with B.
C33_Witness ==
  /\ Len(trace) = 1
  /\ trace[1].Type = "expect" /\ trace[1].Value = <<"/", "^", "B", "/">>
  /\ trace[1].consumed = <<"\n", "B">>
  /\ trace[1].err = NoErr
  /\ ~ RegexMatchString(<<"^", "B">>, trace[1].consumed)


\* The Monitor commands dispatched so far whose parameter is a count of lines
\* above zero.
LineCountEntries ==
  {k \in MonitorEntries : /\ trace[k].Value # <<>>
                          /\ ~ ParseDuration(trace[k].Value).ok
                          /\ Atoi(trace[k].Value).ok
                          /\ Atoi(trace[k].Value).n > 0}

\* C34: a Monitor for N > 0 lines has returned, with success, exactly when it
\* has consumed N newlines: before the N-th newline it is still running,
\* whatever it has consumed of a line that is not ended; the N-th newline is the
\* last character it consumed; and what the device sent after that newline
\* is consumed by the commands after the Monitor or is still queued.
C34_LineCountMonitor ==
  \A k \in LineCountEntries :
    LET e == trace[k]
        N == Atoi(e.Value).n
        c == e.consumed
    IN /\ LineEnds(c) <= N
       /\ (e.err = NoErr) <=> (LineEnds(c) = N)
       /\ (e.err # NoErr) => e.err = Pending
       /\ LineEnds(c) = N => c[Len(c)] = "\n" /\ LineEnds(SubSeq(c, 1, Len(c) - 1)) = N - 1
       /\ received = ConsumedUpTo(Len(trace)) \o readChan

\* C34, witness: a Monitor for one line returned on the newline; the character
\* the device sent after it was consumed by the Expect that follows, which it
\* satisfied.
C34_Witness ==
  /\ Len(trace) = 2
  /\ trace[1].Type = "monitor" /\ trace[1].Value = <<"1">>
  /\ trace[1].err = NoErr /\ trace[1].consumed = <<"\n">>
  /\ trace[2].Type = "expect" /\ trace[2].err = NoErr /\ trace[2].consumed = <<"B">>


\* No command of the top level is a Monitor, and the main script or the except
\* script of a try command holds one.
MonitorInTryOnly ==
  /\ \A i \in 1..Len(commands) : commands[i].Type # "monitor"
  /\ \E i \in 1..Len(commands) :
       /\ commands[i].Type = "try"
       /\ \E n \in {commands[i].TryBlock.Script, commands[i].TryBlock.Except}
                   \cap DOMAIN commands[i].ScriptMap :
            LET p == parsedScripts[commands[i].ScriptMap[n].Content]
            IN p.ok /\ \E j \in 1..Len(p.commands) : p.commands[j].Type = "monitor"

\* C35: the extension of the bound of the session looks at the top-level
\* command list only.  A session whose Monitor commands all sit in the main or
\* except script of a try command is bound by the configured script timeout:
\* its timer is set to it, and when it is timed out, be it while that Monitor
\* runs, it reports the plain script timeout at that bound.
C35_BoundIgnoresTryScripts ==
  MonitorInTryOnly
    => /\ mainPc # "start" => ctxDeadline = scriptTimeout
       /\ mainPc = "woken" => now >= scriptTimeout
       /\ (mainPc \in {"returned", "exited"} /\ runResult.kind \in TimeoutKinds)
            => /\ runResult.kind = "script timeout exceeded"
               /\ now >= scriptTimeout
       /\ mainPc \in {"select", "parked"} => now <= scriptTimeout

\* C35, witness: the Monitor of the main script of a try command was running,
\* a line short of its count, when the session reached the configured script
\* timeout, long before the extended bound, and failed with it.
C35_Witness ==
  /\ MonitorInTryOnly
  /\ scriptTimeout > 0 /\ now = scriptTimeout /\ now < ExtendedTimeout
  /\ mainPc = "returned"
  /\ runResult.kind = "script timeout exceeded"
  /\ ex.pc = "wait" /\ wait.kind = "monitor"
  /\ trace[Len(trace)].Type = "monitor" /\ trace[Len(trace)].ctx = "main"
  /\ trace[Len(trace)].consumed = <<"\n">>


\* C36: what a dry run echoes for a Send is what a session writes for it.  For
\* every value, whatever its frame, its length and its escapes, the bytes that
\* the Send of a session wrote to the port are the text formatSendValue
\* returns for that value, and the dry run of the example values of the three
\* frames and of the short values echoes what handleSend writes.
C36_DryEchoIsLiveWrite ==
  /\ Len(written) = Len(SentEntries)
  /\ \A j \in 1..Len(written) : written[j] = formatSendValue(SentEntries[j].Value)
  /\ \A v \in {<<>>, <<"'">>, <<"\"">>, vQuotedA, vDoubleB, <<"a">>} :
       formatSendValue(v) = sendBytes(v)

\* C36, witness: a Send of "\rn" wrote a carriage return and the letter n, the
\* text a dry run echoes for it.
C36_Witness ==
  /\ commands[1].Type = "send"
  /\ commands[1].Value = <<"\"", "\\", "r", "n", "\"">>
  /\ trace # <<>> /\ trace[1].err = NoErr
  /\ written = << <<"\r", "n">> >>
  /\ formatSendValue(commands[1].Value) = <<"\r", "n">>


ValidExpects ==
  {k \in TraceIdx : /\ trace[k].Type = "expect"
                    /\ PatternFramed(trace[k].Value)
                    /\ Framed(trace[k].Value, "/") => RegexCompiles(Inner(trace[k].Value))}

\* C38: an Expect never succeeds before it has consumed a character.  An
\* Expect whose pattern is met by the empty text ('', "" or //) is no
\* exception: it has succeeded exactly when it has consumed one character,
\* the first it received, and when it fails it has consumed nothing and fails
\* with the receive timeout.
C38_ExpectNeedsACharacter ==
  \A k \in ValidExpects :
    LET e == trace[k]
    IN /\ e.err = NoErr => e.consumed # <<>>
       /\ Satisfies(e.Value, <<>>) =>
            /\ Len(e.consumed) <= 1
            /\ (e.err = NoErr) <=> (Len(e.consumed) = 1)
            /\ e.err \in {NoErr, Pending, MkErr("receive timeout", "", e.Value)}

\* C38, witness: an Expect for '' succeeded on the first character it
\* received, a newline, and left the character after it in the queue.
C38_Witness ==
  /\ Len(trace) = 1
  /\ trace[1].Type = "expect" /\ trace[1].Value = <<"'", "'">>
  /\ trace[1].consumed = <<"\n">>
  /\ trace[1].err = NoErr
  /\ readChan = <<"B">>


\* The smaller of two numbers.
Min(a, b) == IF a < b THEN a ELSE b

\* C39: the cursor of a dry run stays within the lines of the input and never
\* goes back.  Every command started at a cursor that no command before it
\* had passed, and left it where it was or further on, at most at the number
\* of lines: a Send left it where it was; a Monitor moved it on by 10 lines,
\* or by the lines that remained when they were fewer, whatever its parameter;
\* and an Expect that starts when no line remains finds none.
C39_DryCursor ==
  /\ dry.lineIndex \in 0..Len(dry.lines)
  /\ \A k \in TraceIdx :
       LET e == trace[k]
       IN /\ 0 <= e.from /\ e.from <= e.to /\ e.to <= Len(dry.lines)
          /\ e.to <= dry.lineIndex
          /\ \A m \in (k + 1)..Len(trace) :
               /\ e.from <= trace[m].from
               /\ e.Type # "try" => e.to <= trace[m].from
          /\ e.Type = "send" => e.to = e.from
          /\ e.Type = "monitor" => e.to = e.from + Min(10, Len(dry.lines) - e.from)
          /\ (e.Type = "expect" /\ e.from = Len(dry.lines)) => e.err # NoErr /\ e.to = e.from

\* C39, witness: over an input of twelve lines, a Monitor for one second moved
\* the cursor from 0 to 10, and the Monitor after it from 10 to 12.
C39_Witness ==
  /\ Len(dry.lines) = 12
  /\ Len(trace) = 2
  /\ trace[1].Type = "monitor" /\ trace[1].Value = vOneSecond
  /\ trace[1].from = 0 /\ trace[1].to = 10
  /\ trace[2].Type = "monitor" /\ trace[2].from = 10 /\ trace[2].to = 12
  /\ dry.lineIndex = 12


(***************************************************************************)
(* Sessions in which the device sends more than readChan holds.            *)
(***************************************************************************)
QueueInit ==
  /\ commands \in QueuePrograms
  /\ scriptTimeout \in ScriptTimeouts
  /\ now = 0
  /\ mainPc = "start"
  /\ ctxDeadline = 0
  /\ done = <<>>
  /\ runResult = NoErr
  /\ readChan = <<>>
  /\ rdPc = "idle"
  /\ nRead = 0
  /\ written = <<>>
  /\ ex = IdleEx
  /\ wait = NoWait
  /\ trace = <<>>
  /\ port = "open"
  /\ received = <<>>
  /\ config = NoConfig
  /\ scriptNames = <<>>
  /\ scriptsToExecute = NoSelection
  /\ parseInput = <<>>
  /\ parseOutcome = NoOutcome
  /\ fnInput = <<>>
  /\ fnOutput = <<>>
  /\ dry = NoDryRun

QueueSpec == QueueInit /\ [][Next]_vars

\* C40: the queue between the reader and the executor never holds more
\* characters than its capacity, and loses none: whatever the reader has
\* passed on is what the commands consumed followed by what the queue holds,
\* also when the device sends more than the queue holds while no Expect and
\* no Monitor takes from it; a character beyond the capacity enters the queue
\* only once the executor has made room.
C40_QueueBoundedAndLossless ==
  /\ Len(readChan) <= QueueCap
  /\ Len(received) = nRead
  /\ received = ConsumedUpTo(Len(trace)) \o readChan
  /\ Len(received) > QueueCap => Len(ConsumedUpTo(Len(trace))) >= Len(received) - QueueCap

\* C40, witness: the device sent three characters to a session that began
\* with a Send.  The queue was full after two; the third entered it after the
\* Expect had consumed the first, and the queue is full again, with the
\* second and the third character.
C40_Witness ==
  /\ Len(received) = QueueCap + 1
  /\ Len(readChan) = QueueCap
  /\ readChan = SubSeq(received, 2, QueueCap + 1)
  /\ Len(trace) = 2
  /\ trace[1].Type = "send" /\ trace[2].Type = "expect"
  /\ trace[2].consumed = <<received[1]>>

=============================================================================
